---- MODULE Spec2Model ----
(***************************************************************************)
(* A model of the message orchestration core of the SMS system:            *)
(*   - RateLimitManager            (middleware/rateLimiting.js)            *)
(*   - CompleteSMSServerRailway    (server/index.js)                       *)
(*   - AgentSystem                 (server/systems/agentSystem.js)         *)
(*   - ProgramEngine               (server/engines/programEngine.js)       *)
(*   - BroadcastSystem             (server/systems/broadcastSystem.js)     *)
(*                                                                         *)
(* The server is one cooperative Node.js process: a handler runs without   *)
(* interruption up to its next `await`, where any other handler or timer   *)
(* callback may run.  Each action below is one such uninterrupted piece:    *)
(* it starts with the outcome of the awaited operation (a database         *)
(* statement takes effect atomically, a send succeeds or throws) and runs  *)
(* the synchronous code up to the next `await`.  SQL statements have the   *)
(* meaning the code's (MySQL) text gives them.                             *)
(*                                                                         *)
(* Every subsystem has its own specification (SpecRate, SpecAgent, ...)    *)
(* over the same variables; a specification leaves the variables of the    *)
(* other subsystems unchanged.                                             *)
(***************************************************************************)
EXTENDS Integers, Sequences, FiniteSets, TLC

VARIABLES
    now,            \* wall clock, milliseconds since the epoch (Date.now())
    nTicks,         \* number of clock advances (bounded)
    \* RateLimitManager and sendMessage
    rate_limits,    \* table rate_limits: set of rows
    config,         \* RateLimitManager.config
    senders,        \* in-flight calls of sendMessage, by caller
    nSends,         \* number of sendMessage calls started (bounded)
    \* AgentSystem and message routing
    server,         \* which server class runs: "railway" or "complete"
    agents,         \* table agents, by agent id
    chat_sessions,  \* table chat_sessions: sequence of rows, id = position
    activeSessions, \* AgentSystem.activeSessions (Map), in insertion order
    pendingConnections, \* AgentSystem.pendingConnections (Map), in insertion order
    sessionTimeouts,    \* AgentSystem.sessionTimeouts (Map): sessionKey -> timer
    connTimers,     \* armed request timeouts (setTimeout of requestAgentConnection)
    messages,       \* table messages: the rows that belong to a chat session
    cleanupDue,     \* when the interval of startSessionCleanup fires next
    tasks,          \* handlers in flight: inbound messages and API calls
    nTasks,         \* number of handlers started (bounded)
    \* ProgramEngine
    program_states, \* table program_states: sequence of rows, id = position
    outbound,       \* messages sent by program steps, in order
    programs,       \* the programs table
    \* BroadcastSystem
    broadcasts,     \* table broadcasts: sequence of rows, id = position
    broadcast_recipients,   \* table broadcast_recipients: sequence of rows
    sendingQueue,   \* BroadcastSystem.sendingQueue
    isProcessing,   \* BroadcastSystem.isProcessing
    processor,      \* the running processBroadcastQueue calls
    pollers,        \* processScheduledBroadcasts calls in flight
    cancels,        \* the cancelBroadcast calls made, in order
    delivered,      \* the broadcast messages sent, in order
    bcalls,         \* createBroadcast calls in flight
    nBroadcasts     \* number of createBroadcast calls started (bounded)

clockVars == <<now, nTicks>>
rateVars == <<rate_limits, config, senders, nSends>>
agentVars == <<server, agents, chat_sessions, activeSessions, pendingConnections,
               sessionTimeouts, connTimers, messages, cleanupDue>>
taskVars == <<tasks, nTasks>>
progVars == <<program_states, outbound, programs>>
bcVars == <<broadcasts, broadcast_recipients, sendingQueue, isProcessing, processor,
            pollers, cancels, delivered, bcalls, nBroadcasts>>

vars == <<clockVars, rateVars, agentVars, taskVars, progVars, bcVars>>

(***************************************************************************)
(* Generic helpers                                                         *)
(***************************************************************************)
RECURSIVE SumCounts(_)
SumCounts(rows) ==
    IF rows = {} THEN 0
    ELSE LET r == CHOOSE x \in rows : TRUE
         IN r.message_count + SumCounts(rows \ {r})

\* the ids of a set in ascending order
RECURSIVE Ascending(_)
Ascending(S) ==
    IF S = {} THEN <<>>
    ELSE LET m == CHOOSE x \in S : \A y \in S : x <= y
         IN <<m>> \o Ascending(S \ {m})

(***************************************************************************)
(* RateLimitManager                                                        *)
(***************************************************************************)
\* Bounds of the rate-limit model
MaxSends == 3
MaxTicks == 2
CfgPerMinute == 1
CfgPerHour == 2
CfgPerDay == 3
CfgGlobalPerMinute == 1
CfgGlobalPerHour == 3
CfgGlobalPerDay == 5

\* window durations in milliseconds
MinuteMs == 60000
HourMs == 3600000
DayMs == 86400000

RatePhones == {"u1", "u2"}
SenderIds == {"h1", "h2"}
Windows == <<"minute", "hour", "day">>

Duration(w) ==
    CASE w = "minute" -> MinuteMs
      [] w = "hour" -> HourMs
      [] w = "day" -> DayMs

\* this.config as loaded by loadConfig() from system_config
LoadedConfig ==
    [perMinute |-> CfgPerMinute, perHour |-> CfgPerHour, perDay |-> CfgPerDay,
     globalPerMinute |-> CfgGlobalPerMinute, globalPerHour |-> CfgGlobalPerHour,
     globalPerDay |-> CfgGlobalPerDay]

PhoneLimit(cfg, w) ==
    CASE w = "minute" -> cfg.perMinute
      [] w = "hour" -> cfg.perHour
      [] w = "day" -> cfg.perDay

\* Math.floor(now.getTime() / duration) * duration
WindowStart(t, w) == (t \div Duration(w)) * Duration(w)

\* SELECT COALESCE(SUM(message_count), 0) FROM rate_limits
\*   WHERE phone = ? AND time_window = ? AND window_start = ?
PhoneTotal(rows, phone, w, ws) ==
    SumCounts({r \in rows : r.phone = phone /\ r.time_window = w /\ r.window_start = ws})

Allowed == [allowed |-> TRUE, window |-> "none", current |-> 0, limit |-> 0, resetAt |-> 0]

\* an iteration that denies only above the limit
checkPhoneWindowAboveLimit(rows, cfg, phone, i, t) ==
    LET w == Windows[i]
        windowStart == WindowStart(t, w)
        currentCount == PhoneTotal(rows, phone, w, windowStart)
        limit == PhoneLimit(cfg, w)
    IN IF currentCount > limit
       THEN [allowed |-> FALSE, window |-> w, current |-> currentCount,
             limit |-> limit, resetAt |-> windowStart + Duration(w)]
       ELSE Allowed

\* One iteration of the loop of checkPhoneRateLimit: the check of window i
\* at the time t captured on entry, against the rows as they are now.
checkPhoneWindow(rows, cfg, phone, i, t) ==
    LET w == Windows[i]
        windowStart == WindowStart(t, w)
        currentCount == PhoneTotal(rows, phone, w, windowStart)
        limit == PhoneLimit(cfg, w)
    IN IF currentCount >= limit
       THEN [allowed |-> FALSE, window |-> w, current |-> currentCount,
             limit |-> limit, resetAt |-> windowStart + Duration(w)]
       ELSE Allowed

GlobalLimit(cfg, w) ==
    CASE w = "minute" -> cfg.globalPerMinute
      [] w = "hour" -> cfg.globalPerHour
      [] w = "day" -> cfg.globalPerDay

\* SELECT COALESCE(SUM(message_count), 0) FROM rate_limits
\*   WHERE time_window = ? AND window_start = ?
GlobalTotal(rows, w, ws) ==
    SumCounts({r \in rows : r.time_window = w /\ r.window_start = ws})

\* One iteration of the loop of checkGlobalRateLimit
checkGlobalWindow(rows, cfg, i, t) ==
    LET w == Windows[i]
        windowStart == WindowStart(t, w)
        currentCount == GlobalTotal(rows, w, windowStart)
        limit == GlobalLimit(cfg, w)
    IN IF currentCount >= limit
       THEN [allowed |-> FALSE, window |-> "global_" \o w, current |-> currentCount,
             limit |-> limit, resetAt |-> windowStart + Duration(w)]
       ELSE Allowed

\* INSERT INTO rate_limits (...) VALUES (?, ?, ?, 1)
\*   ON DUPLICATE KEY UPDATE message_count = message_count + 1
\* (unique key: phone, time_window, window_start)
UpsertRateLimit(rows, phone, w, ws) ==
    IF \E r \in rows : r.phone = phone /\ r.time_window = w /\ r.window_start = ws
    THEN {IF r.phone = phone /\ r.time_window = w /\ r.window_start = ws
          THEN [r EXCEPT !.message_count = @ + 1] ELSE r : r \in rows}
    ELSE rows \cup {[phone |-> phone, time_window |-> w, window_start |-> ws,
                     message_count |-> 1]}

IdleSender == [pc |-> "idle", to |-> "u1", t |-> 0, i |-> 1, res |-> Allowed]

\* sendMessage(to, ...) is entered: checkPhoneRateLimit captures `now`.
sendMessage(s, to) ==
    /\ senders[s].pc = "idle"
    /\ nSends < MaxSends
    /\ nSends' = nSends + 1
    /\ senders' = [senders EXCEPT ![s] =
                      [pc |-> "check", to |-> to, t |-> now, i |-> 1, res |-> Allowed]]
    /\ UNCHANGED <<clockVars, rate_limits, config, agentVars, taskVars, progVars, bcVars>>

\* checkPhoneRateLimit: one SELECT of the loop; a denial makes sendMessage
\* throw "Rate limit exceeded", after the last window sendMessage goes on.
checkPhoneRateLimit(s) ==
    /\ senders[s].pc = "check"
    /\ LET me == senders[s]
           r == checkPhoneWindow(rate_limits, config, me.to, me.i, me.t)
       IN senders' = [senders EXCEPT ![s] =
              IF ~r.allowed THEN [me EXCEPT !.pc = "idle", !.res = r]
              ELSE IF me.i < Len(Windows) THEN [me EXCEPT !.i = me.i + 1]
              ELSE [me EXCEPT !.pc = "store", !.res = Allowed]]
    /\ UNCHANGED <<clockVars, rate_limits, config, nSends, agentVars, taskVars, progVars, bcVars>>

\* sendMessage: INSERT INTO messages, hand over to the bridge (or simulate),
\* then updateRateLimit is entered and captures `now`.
deliverMessage(s) ==
    /\ senders[s].pc = "store"
    /\ senders' = [senders EXCEPT ![s] = [@ EXCEPT !.pc = "update", !.t = now, !.i = 1]]
    /\ UNCHANGED <<clockVars, rate_limits, config, nSends, agentVars, taskVars, progVars, bcVars>>

\* updateRateLimit: one upsert of the loop.
updateRateLimit(s) ==
    /\ senders[s].pc = "update"
    /\ LET me == senders[s]
           w == Windows[me.i]
       IN /\ rate_limits' = UpsertRateLimit(rate_limits, me.to, w, WindowStart(me.t, w))
          /\ senders' = [senders EXCEPT ![s] =
                 IF me.i < Len(Windows) THEN [me EXCEPT !.i = me.i + 1]
                 ELSE [me EXCEPT !.pc = "idle"]]
    /\ UNCHANGED <<clockVars, config, nSends, agentVars, taskVars, progVars, bcVars>>

\* The clock reaches the start of the next minute, hour or day.
Tick(w) ==
    /\ nTicks < MaxTicks
    /\ nTicks' = nTicks + 1
    /\ now' = WindowStart(now, w) + Duration(w)
    /\ UNCHANGED <<rateVars, agentVars, taskVars, progVars, bcVars>>

InitClock ==
    /\ now = 0
    /\ nTicks = 0

InitRate ==
    /\ rate_limits = {}
    /\ config = LoadedConfig
    /\ senders = [s \in SenderIds |-> IdleSender]
    /\ nSends = 0

NextRate ==
    \/ \E s \in SenderIds, to \in RatePhones : sendMessage(s, to)
    \/ \E s \in SenderIds : checkPhoneRateLimit(s)
    \/ \E s \in SenderIds : deliverMessage(s)
    \/ \E s \in SenderIds : updateRateLimit(s)
    \/ \E w \in {"minute", "hour", "day"} : Tick(w)


(***************************************************************************)
(* Strings: a string is a sequence of one-character strings.               *)
(***************************************************************************)
Space == " "

\* String.prototype.toUpperCase / toLowerCase, per character
LowerLetters == <<"a", "b", "c", "d", "e", "f", "g", "h", "i", "j", "k", "l", "m",
                  "n", "o", "p", "q", "r", "s", "t", "u", "v", "w", "x", "y", "z">>
UpperLetters == <<"A", "B", "C", "D", "E", "F", "G", "H", "I", "J", "K", "L", "M",
                  "N", "O", "P", "Q", "R", "S", "T", "U", "V", "W", "X", "Y", "Z">>

UpperChar(c) ==
    IF \E i \in 1..Len(LowerLetters) : LowerLetters[i] = c
    THEN UpperLetters[CHOOSE i \in 1..Len(LowerLetters) : LowerLetters[i] = c]
    ELSE c

LowerChar(c) ==
    IF \E i \in 1..Len(UpperLetters) : UpperLetters[i] = c
    THEN LowerLetters[CHOOSE i \in 1..Len(UpperLetters) : UpperLetters[i] = c]
    ELSE c

toUpperCase(str) == [i \in 1..Len(str) |-> UpperChar(str[i])]
toLowerCase(str) == [i \in 1..Len(str) |-> LowerChar(str[i])]

\* String.prototype.trim: whitespace removed at both ends
trim(str) ==
    LET keep == {i \in 1..Len(str) : str[i] # Space}
    IN IF keep = {} THEN <<>>
       ELSE LET lo == CHOOSE i \in keep : \A j \in keep : i <= j
                hi == CHOOSE i \in keep : \A j \in keep : i >= j
            IN SubSeq(str, lo, hi)

\* String.prototype.startsWith / includes
startsWith(str, sub) ==
    /\ Len(sub) <= Len(str)
    /\ SubSeq(str, 1, Len(sub)) = sub

includes(str, sub) ==
    \E k \in 0..(Len(str) - Len(sub)) : SubSeq(str, k + 1, k + Len(sub)) = sub

STR_ACCEPT == <<"A", "C", "C", "E", "P", "T">>
STR_END == <<"E", "N", "D">>

(***************************************************************************)
(* AgentSystem                                                             *)
(***************************************************************************)
\* Bounds of the agent model
MaxTasks == 3
AgentMaxChats == 1

\* setTimeout delays
SessionTimeoutMs == 1800000
ConnectionTimeoutMs == 300000

\* cleanupOldSessions: the interval of the sweep, the idle time after which
\* it ends a session and the age at which it drops a pending request
CleanupIntervalMs == 3600000
IdleThresholdMs == 3600000
PendingMaxAgeMs == 600000

UserPhones == {"u1", "u2"}
AgentIds == {1, 2}
AgentPhone(a) == IF a = 1 THEN "a1" ELSE "a2"
Phones == UserPhones \cup {AgentPhone(a) : a \in AgentIds}
TaskIds == {1, 2}
ServerVariants == {"railway", "complete"}

\* contacts.id of the contact with this phone (findOrCreateContact)
ContactOf(phone) ==
    CASE phone = "u1" -> 1 [] phone = "u2" -> 2 [] phone = "a1" -> 3 [] phone = "a2" -> 4

\* inbound texts: " accept", "END", "hi", "help"
TEXT_accept == <<" ", "a", "c", "c", "e", "p", "t">>
TEXT_hi == <<"h", "i">>
TEXT_help == <<"h", "e", "l", "p">>
InboundTexts == {TEXT_accept, STR_END, TEXT_hi, TEXT_help}

NoReq == [userPhone |-> "none", contactId |-> 0, requestTime |-> 0, notifiedAgents |-> <<>>]
NoSess == [sessionKey |-> 0, sessionId |-> 0, contactId |-> 0, agentId |-> 0,
           userPhone |-> "none", agentPhone |-> "none"]

\* null / a value: <<>> is null, <<v>> is the value v
Null == <<>>
Some(v) == <<v>>

\* JavaScript truthiness of a step id that may be null: null and 0 are falsy
Truthy(opt) == opt # Null /\ opt[1] # 0

\* JSON objects (step_data): functions from key to JSON text
EmptyObject == [k \in {} |-> <<>>]
SetKey(obj, k, v) == [x \in DOMAIN obj \cup {k} |-> IF x = k THEN v ELSE obj[x]]
JSON_true == <<"t", "r", "u", "e">>
JsonString(str) == <<"\"">> \o str \o <<"\"">>

\* a program step and its parts, every field present
NoStep ==
    [id |-> 0, type |-> "none", content |-> "", conditions |-> <<>>,
     next_step_id |-> Null,
     default_next_step_id |-> Null, delay |-> 0, validators |-> <<>>,
     error_message |-> "", variable_name |-> "", message |-> ""]

\* the object a handler holds of a program_states row
NoState == [id |-> 0, program_id |-> 0, contact_id |-> 0, current_step |-> 0,
            step_data |-> EmptyObject]

IdleTask ==
    [kind |-> "none", pc |-> "idle", from |-> "none", text |-> <<>>, stage |-> 0,
     seq |-> 0, agent |-> 0, req |-> NoReq, sess |-> NoSess, key |-> 0, reason |-> "none",
     ret |-> "none", todo |-> <<>>, sending |-> "none",
     prog |-> 0, ps |-> NoState, step |-> NoStep, target |-> 0, nullMsg |-> FALSE,
     after |-> "none", available |-> FALSE, progs |-> <<>>,
     contactIds |-> <<>>, groupIds |-> <<>>, group |-> 0,
     triedAgent |-> FALSE, triedForward |-> FALSE,
     agentHandled |-> FALSE, chatForwarded |-> FALSE, programInvoked |-> FALSE]

\* A handler starts in the first free frame (frames have no identity).
Free(h) == /\ tasks[h].pc = "idle"
           /\ \A g \in TaskIds : tasks[g].pc = "idle" => h <= g

\* sequence helpers
SelectIdx(seq, Test(_)) == {i \in 1..Len(seq) : Test(seq[i])}
MinOf(S) == CHOOSE i \in S : \A j \in S : i <= j
RemoveAt(seq, i) == SubSeq(seq, 1, i - 1) \o SubSeq(seq, i + 1, Len(seq))

\* Map.prototype.delete(key) on a Map kept in insertion order
MapDelete(map, KeyIs(_)) ==
    LET hit == SelectIdx(map, KeyIs)
    IN IF hit = {} THEN map ELSE RemoveAt(map, MinOf(hit))

\* Map.prototype.set(key, value): an existing key keeps its position
MapSet(map, KeyIs(_), value) ==
    LET hit == SelectIdx(map, KeyIs)
    IN IF hit = {} THEN Append(map, value)
       ELSE [map EXCEPT ![MinOf(hit)] = value]

\* getActiveSessionByUser / getActiveSessionByAgent: the first entry, in
\* insertion order, with that phone
getActiveSessionByUser(userPhone) ==
    LET hit == SelectIdx(activeSessions, LAMBDA e : e.userPhone = userPhone)
    IN IF hit = {} THEN NoSess ELSE activeSessions[MinOf(hit)]

getActiveSessionByAgent(agentPhone) ==
    LET hit == SelectIdx(activeSessions, LAMBDA e : e.agentPhone = agentPhone)
    IN IF hit = {} THEN NoSess ELSE activeSessions[MinOf(hit)]

\* findPendingConnectionForAgent: the request with the smallest requestTime,
\* the first one in Map order among equals; NoReq when the Map is empty
RECURSIVE OldestFrom(_, _, _)
OldestFrom(pending, i, oldest) ==
    IF i > Len(pending) THEN oldest
    ELSE IF oldest = NoReq \/ pending[i].requestTime < oldest.requestTime
         THEN OldestFrom(pending, i + 1, pending[i])
         ELSE OldestFrom(pending, i + 1, oldest)

findPendingConnectionForAgent(agentPhone) == OldestFrom(pendingConnections, 1, NoReq)

\* SELECT COUNT(*) FROM chat_sessions WHERE agent_id = ? AND status = 'active'
ActiveChats(a) ==
    Cardinality({i \in 1..Len(chat_sessions) :
                    chat_sessions[i].agent_id = a /\ chat_sessions[i].status = "active"})

\* SELECT * FROM agents WHERE phone = ? AND is_active = TRUE
AgentsByPhone(phone) == {a \in AgentIds : agents[a].phone = phone /\ agents[a].is_active}

\* startSessionTimeout / clearSessionTimeout / resetSessionTimeout
startSessionTimeout(timeouts, sessionKey) ==
    [k \in DOMAIN timeouts \cup {sessionKey} |->
        IF k = sessionKey THEN [due |-> now + SessionTimeoutMs, fired |-> FALSE]
        ELSE timeouts[k]]

clearSessionTimeout(timeouts, sessionKey) ==
    [k \in DOMAIN timeouts \ {sessionKey} |-> timeouts[k]]

resetSessionTimeout(timeouts, sessionKey) ==
    startSessionTimeout(clearSessionTimeout(timeouts, sessionKey), sessionKey)

(***************************************************************************)
(* processIncomingMessage: the chain of the three handlers                 *)
(***************************************************************************)
\* The order in which processIncomingMessage offers the message:
\* CompleteSMSServerRailway (index.js) and CompleteSMSServer differ.
StageOrder ==
    IF server = "railway" THEN <<"agent", "forward", "program">>
    ELSE <<"forward", "agent", "program">>

\* The handler has returned: its frame is gone.
Done(t) == IdleTask

\* a chain that no handler's answer stops
NeverStopsChain(claimed) == FALSE

\* `if (agentHandled) return;` / `if (chatForwarded) return;`
StopsChain(claimed) == claimed

\* processAgentMessage up to its first await; pc "ret_false" when it
\* returns false without awaiting
processAgentMessage_entry(t) ==
    LET trimmedMessage == toUpperCase(trim(t.text))
        t1 == [t EXCEPT !.triedAgent = TRUE]
    IN IF trimmedMessage = STR_ACCEPT THEN [t1 EXCEPT !.pc = "acc_agent"]
       ELSE LET activeSession == getActiveSessionByAgent(t.from)
            IN IF trimmedMessage = STR_END
               THEN IF activeSession = NoSess
                    THEN [t1 EXCEPT !.pc = "end_reply"]
                    ELSE [t1 EXCEPT !.pc = "ecs_update", !.sess = activeSession,
                                    !.reason = "ended_by_agent", !.ret = "agent"]
               ELSE IF activeSession # NoSess
                    THEN [t1 EXCEPT !.pc = "fam_send", !.sess = activeSession]
                    ELSE [t1 EXCEPT !.pc = "ret_false"]

\* forwardUserMessage up to its first await
forwardUserMessage_entry(t) ==
    LET activeSession == getActiveSessionByUser(t.from)
        t1 == [t EXCEPT !.triedForward = TRUE]
    IN IF activeSession = NoSess THEN [t1 EXCEPT !.pc = "ret_false"]
       ELSE [t1 EXCEPT !.pc = "fum_send", !.sess = activeSession]

\* programEngine.processMessage up to its first await
processMessage_entry(t) == [t EXCEPT !.pc = "pm_base", !.programInvoked = TRUE]

\* processIncomingMessage from its k-th handler on
RECURSIVE EnterStage(_, _)
EnterStage(t, k) ==
    LET st == StageOrder[k]
        r == CASE st = "agent" -> processAgentMessage_entry([t EXCEPT !.stage = k])
               [] st = "forward" -> forwardUserMessage_entry([t EXCEPT !.stage = k])
               [] st = "program" -> processMessage_entry([t EXCEPT !.stage = k])
    IN IF r.pc = "ret_false" THEN EnterStage(r, k + 1) ELSE r

\* The current handler returns `claimed` to processIncomingMessage.
StageReturns(t, claimed) ==
    LET t1 == IF StageOrder[t.stage] = "agent" THEN [t EXCEPT !.agentHandled = claimed]
              ELSE IF StageOrder[t.stage] = "forward" THEN [t EXCEPT !.chatForwarded = claimed]
              ELSE t
    IN IF StopsChain(claimed) \/ t.stage = Len(StageOrder) THEN Done(t1)
       ELSE EnterStage(t1, t.stage + 1)

\* An inbound SMS arrives (the bridge's incoming_sms event).
processIncomingMessage(h, from, text) ==
    /\ Free(h)
    /\ nTasks < MaxTasks
    /\ nTasks' = nTasks + 1
    /\ tasks' = [tasks EXCEPT ![h] =
                    [IdleTask EXCEPT !.kind = "msg", !.pc = "route", !.from = from,
                                     !.text = text, !.seq = nTasks + 1]]
    /\ UNCHANGED <<clockVars, rateVars, progVars, bcVars, agentVars>>

\* findOrCreateContact and the INSERT of the inbound message are done;
\* the first handler of the chain is called.
routeMessage(h) ==
    /\ tasks[h].pc = "route"
    /\ tasks' = [tasks EXCEPT ![h] = EnterStage(tasks[h], 1)]
    /\ UNCHANGED <<clockVars, rateVars, progVars, bcVars, agentVars, nTasks>>


(***************************************************************************)
(* handleAcceptCommand                                                     *)
(***************************************************************************)
SetTask(h, t) == tasks' = [tasks EXCEPT ![h] = t]

\* SELECT * FROM agents WHERE phone = ? AND is_active = TRUE has answered.
handleAcceptCommand_findAgent(h) ==
    /\ tasks[h].pc = "acc_agent"
    /\ LET t == tasks[h]
           found == AgentsByPhone(t.from)
       IN IF found = {}
          THEN SetTask(h, [t EXCEPT !.pc = "acc_reply", !.sending = "not_agent"])
          ELSE SetTask(h, [t EXCEPT !.pc = "acc_count",
                                    !.agent = CHOOSE a \in found : TRUE])
    /\ UNCHANGED <<clockVars, rateVars, progVars, bcVars, agentVars, nTasks>>

\* generateSessionKey: a fresh random key
generateSessionKey(t) == t.seq

\* The COUNT of the agent's active sessions has answered: capacity check,
\* findPendingConnectionForAgent, and the INSERT of the session is issued.
handleAcceptCommand_checkCapacity(h) ==
    /\ tasks[h].pc = "acc_count"
    /\ LET t == tasks[h]
           pendingRequest == findPendingConnectionForAgent(t.from)
       IN IF ActiveChats(t.agent) >= agents[t.agent].max_concurrent_chats
          THEN SetTask(h, [t EXCEPT !.pc = "acc_reply", !.sending = "max_chats"])
          ELSE IF pendingRequest = NoReq
          THEN SetTask(h, [t EXCEPT !.pc = "acc_reply", !.sending = "no_pending"])
          ELSE SetTask(h, [t EXCEPT !.pc = "acc_insert", !.req = pendingRequest,
                                    !.key = generateSessionKey(t)])
    /\ UNCHANGED <<clockVars, rateVars, progVars, bcVars, agentVars, nTasks>>

\* The INSERT INTO chat_sessions is done: activeSessions.set, the pending
\* request is removed, the session timeout starts, the agent is notified.
handleAcceptCommand_createSession(h) ==
    /\ tasks[h].pc = "acc_insert"
    /\ LET t == tasks[h]
           sessionId == Len(chat_sessions) + 1
       IN /\ chat_sessions' = Append(chat_sessions,
                 [contact_id |-> t.req.contactId, agent_id |-> t.agent,
                  session_key |-> t.key, status |-> "active", started_at |-> now,
                  ended_at |-> -1])
          /\ activeSessions' = MapSet(activeSessions, LAMBDA e : e.sessionKey = t.key,
                 [sessionKey |-> t.key, sessionId |-> sessionId,
                  contactId |-> t.req.contactId, agentId |-> t.agent,
                  userPhone |-> t.req.userPhone, agentPhone |-> t.from])
          /\ pendingConnections' =
                 MapDelete(pendingConnections, LAMBDA e : e.userPhone = t.req.userPhone)
          /\ sessionTimeouts' = startSessionTimeout(sessionTimeouts, t.key)
          /\ SetTask(h, [t EXCEPT !.pc = "acc_notify_agent"])
    /\ UNCHANGED <<clockVars, rateVars, progVars, bcVars, server, agents, messages, cleanupDue, connTimers, nTasks>>

\* The two notifications after the session was created; a send that throws
\* is caught by handleAcceptCommand, which then sends the error text.
handleAcceptCommand_notify(h) ==
    /\ tasks[h].pc \in {"acc_notify_agent", "acc_notify_user"}
    /\ \E ok \in BOOLEAN :
         LET t == tasks[h]
         IN IF ~ok THEN SetTask(h, [t EXCEPT !.pc = "acc_error"])
            ELSE IF t.pc = "acc_notify_agent"
            THEN SetTask(h, [t EXCEPT !.pc = "acc_notify_user"])
            ELSE SetTask(h, StageReturns(t, TRUE))
    /\ UNCHANGED <<clockVars, rateVars, progVars, bcVars, agentVars, nTasks>>

\* The reply of an ACCEPT that created nothing (not an agent, at capacity,
\* nothing pending).
handleAcceptCommand_reply(h) ==
    /\ tasks[h].pc = "acc_reply"
    /\ \E ok \in BOOLEAN :
         LET t == tasks[h]
         IN IF ok THEN SetTask(h, StageReturns(t, TRUE))
            ELSE SetTask(h, [t EXCEPT !.pc = "acc_error"])
    /\ UNCHANGED <<clockVars, rateVars, progVars, bcVars, agentVars, nTasks>>

\* The send of the catch block; when it throws too, the exception leaves
\* processAgentMessage and is caught by processIncomingMessage.
handleAcceptCommand_error(h) ==
    /\ tasks[h].pc = "acc_error"
    /\ \E ok \in BOOLEAN :
         LET t == tasks[h]
         IN IF ok THEN SetTask(h, StageReturns(t, TRUE))
            ELSE SetTask(h, Done(t))
    /\ UNCHANGED <<clockVars, rateVars, progVars, bcVars, agentVars, nTasks>>

(***************************************************************************)
(* handleEndCommand, endChatSession                                        *)
(***************************************************************************)
\* "no active chat" reply of END; a throw is caught by handleEndCommand.
handleEndCommand_reply(h) ==
    /\ tasks[h].pc = "end_reply"
    /\ \E ok \in BOOLEAN :
         LET t == tasks[h]
         IN SetTask(h, StageReturns(t, TRUE))
    /\ UNCHANGED <<clockVars, rateVars, progVars, bcVars, agentVars, nTasks>>

\* endChatSession(sessionKey, reason) up to its first await: the UPDATE is
\* issued, or the call returns at once when the session is not in the Map
endChatSession_entry(t, sessions, sessionKey, reason) ==
    LET hit == SelectIdx(sessions, LAMBDA e : e.sessionKey = sessionKey)
    IN IF hit = {} THEN [t EXCEPT !.pc = "returned"]
       ELSE [t EXCEPT !.pc = "ecs_update", !.sess = sessions[MinOf(hit)],
                      !.reason = reason]

\* the reason the loops of updateAgentAvailability and cleanupOldSessions
\* pass to endChatSession
LoopReason(t) == IF t.ret = "avail" THEN "agent_offline" ELSE "abandoned"

\* `for (const session of ...) await this.endChatSession(session.session_key, reason)`
\* over the session keys that are left in t.todo
RECURSIVE endChatSession_loop(_, _)
endChatSession_loop(t, sessions) ==
    IF t.todo = <<>> THEN Done(t)
    ELSE LET r == endChatSession_entry([t EXCEPT !.todo = Tail(t.todo)], sessions,
                                       Head(t.todo), LoopReason(t))
         IN IF r.pc = "returned"
            THEN endChatSession_loop([t EXCEPT !.todo = Tail(t.todo)], sessions)
            ELSE r

\* endChatSession returns to its caller.
endChatSession_return(t, sessions) ==
    CASE t.ret = "agent" -> StageReturns(t, TRUE)
      [] t.ret \in {"avail", "sweep"} -> endChatSession_loop(t, sessions)
      [] OTHER -> Done(t)

\* cleanupOldSessions, after its loop: handleConnectionTimeout for every
\* pending request older than 10 minutes
DropOldRequests(pending) ==
    SelectSeq(pending, LAMBDA r : ~(now - r.requestTime > PendingMaxAgeMs))

\* The frame continues as r; a sweep that has ended its last session goes on
\* to drop the old pending requests.
ContinueAs(h, t, r) ==
    /\ SetTask(h, r)
    /\ pendingConnections' = IF t.ret = "sweep" /\ r.pc = "idle"
                             THEN DropOldRequests(pendingConnections)
                             ELSE pendingConnections

\* UPDATE chat_sessions SET status = ?, ended_at = NOW() WHERE id = ?
endChatSession_update(h) ==
    /\ tasks[h].pc = "ecs_update"
    /\ LET t == tasks[h]
       IN /\ chat_sessions' = [chat_sessions EXCEPT ![t.sess.sessionId] =
                                  [@ EXCEPT !.status = t.reason, !.ended_at = now]]
          /\ SetTask(h, [t EXCEPT !.pc = "ecs_user"])
    /\ UNCHANGED <<clockVars, rateVars, progVars, bcVars, server, agents, messages, cleanupDue,
                   activeSessions, pendingConnections, sessionTimeouts, connTimers, nTasks>>

\* The notice to the user was sent or threw (caught: endChatSession returns).
endChatSession_notifyUser(h) ==
    /\ tasks[h].pc = "ecs_user"
    /\ \E ok \in BOOLEAN :
         LET t == tasks[h]
         IN IF ok THEN /\ SetTask(h, [t EXCEPT !.pc = "ecs_agent"])
                       /\ UNCHANGED pendingConnections
            ELSE ContinueAs(h, t, endChatSession_return(t, activeSessions))
    /\ UNCHANGED <<clockVars, rateVars, progVars, bcVars, server, agents, messages, cleanupDue,
                   chat_sessions, activeSessions, sessionTimeouts, connTimers, nTasks>>

\* The notice to the agent was sent: activeSessions.delete and
\* clearSessionTimeout; or it threw, and the clean-up is skipped.
endChatSession_notifyAgent(h) ==
    /\ tasks[h].pc = "ecs_agent"
    /\ \E ok \in BOOLEAN :
         LET t == tasks[h]
             left == MapDelete(activeSessions, LAMBDA e : e.sessionKey = t.sess.sessionKey)
         IN IF ok
            THEN /\ activeSessions' = left
                 /\ sessionTimeouts' = clearSessionTimeout(sessionTimeouts, t.sess.sessionKey)
                 /\ ContinueAs(h, t, endChatSession_return(t, left))
            ELSE /\ UNCHANGED <<activeSessions, sessionTimeouts>>
                 /\ ContinueAs(h, t, endChatSession_return(t, activeSessions))
    /\ UNCHANGED <<clockVars, rateVars, progVars, bcVars, server, agents, messages, cleanupDue,
                   chat_sessions, connTimers, nTasks>>

(***************************************************************************)
(* Timers: the session timeout, the request timeout                        *)
(***************************************************************************)
\* The 30 minute timer of a session fires: endChatSession(sessionKey, 'timeout').
sessionTimeout(h, sessionKey) ==
    /\ Free(h)
    /\ sessionKey \in DOMAIN sessionTimeouts
    /\ ~sessionTimeouts[sessionKey].fired
    /\ sessionTimeouts[sessionKey].due <= now
    /\ sessionTimeouts' = [sessionTimeouts EXCEPT ![sessionKey].fired = TRUE]
    /\ LET r == endChatSession_entry([IdleTask EXCEPT !.kind = "timer", !.ret = "timer"],
                                     activeSessions, sessionKey, "timeout")
       IN SetTask(h, IF r.pc = "returned" THEN IdleTask ELSE r)
    /\ UNCHANGED <<clockVars, rateVars, progVars, bcVars, server, agents, messages, cleanupDue,
                   chat_sessions, activeSessions, pendingConnections, connTimers, nTasks>>

\* The 5 minute timer of a request fires: handleConnectionTimeout(userPhone)
\* deletes the pending request of the phone, if there is one, and tells the user.
handleConnectionTimeout(timer) ==
    /\ timer \in connTimers
    /\ timer.due <= now
    /\ connTimers' = connTimers \ {timer}
    /\ pendingConnections' =
           MapDelete(pendingConnections, LAMBDA e : e.userPhone = timer.userPhone)
    /\ UNCHANGED <<clockVars, rateVars, progVars, bcVars, taskVars, server, agents, messages,
                   cleanupDue, chat_sessions, activeSessions, sessionTimeouts>>

(***************************************************************************)
(* POST /api/chats/:sessionKey/end, updateAgentAvailability,               *)
(* cleanupOldSessions                                                      *)
(***************************************************************************)
\* the keys of the sessions in activeSessions
ActiveKeys == {activeSessions[i].sessionKey : i \in 1..Len(activeSessions)}

\* POST /api/chats/:sessionKey/end: endChatSession(sessionKey, 'ended_by_admin')
endChat(h, sessionKey) ==
    /\ Free(h)
    /\ nTasks < MaxTasks
    /\ nTasks' = nTasks + 1
    /\ sessionKey \in ActiveKeys
    /\ SetTask(h, endChatSession_entry([IdleTask EXCEPT !.kind = "admin", !.ret = "admin",
                                                        !.seq = nTasks + 1],
                                       activeSessions, sessionKey, "ended_by_admin"))
    /\ UNCHANGED <<clockVars, rateVars, progVars, bcVars, agentVars>>

\* updateAgentAvailability(agentId, isAvailable) is called for an agent whose
\* availability it changes: the UPDATE of agents is issued.
updateAgentAvailability(h, agentId, isAvailable) ==
    /\ Free(h)
    /\ agents[agentId].is_available # isAvailable
    /\ \A g \in TaskIds : ~(tasks[g].kind = "avail" /\ tasks[g].agent = agentId)
    /\ SetTask(h, [IdleTask EXCEPT !.kind = "avail", !.pc = "ua_update", !.ret = "avail",
                                   !.agent = agentId, !.available = isAvailable])
    /\ UNCHANGED <<clockVars, rateVars, progVars, bcVars, agentVars, nTasks>>

\* UPDATE agents SET is_available = ? WHERE id = ? is done; for an agent that
\* goes offline the SELECT of its active sessions is issued.
updateAgentAvailability_update(h) ==
    /\ tasks[h].pc = "ua_update"
    /\ LET t == tasks[h]
       IN /\ agents' = [agents EXCEPT ![t.agent].is_available = t.available]
          /\ SetTask(h, IF t.available THEN Done(t) ELSE [t EXCEPT !.pc = "ua_select"])
    /\ UNCHANGED <<clockVars, rateVars, progVars, bcVars, server, messages, cleanupDue,
                   chat_sessions, activeSessions, pendingConnections, sessionTimeouts,
                   connTimers, nTasks>>

\* SELECT session_key FROM chat_sessions WHERE agent_id = ? AND status = 'active'
ActiveSessionKeys(agentId) ==
    LET ids == Ascending({i \in 1..Len(chat_sessions) :
                             /\ chat_sessions[i].agent_id = agentId
                             /\ chat_sessions[i].status = "active"})
    IN [k \in 1..Len(ids) |-> chat_sessions[ids[k]].session_key]

\* The SELECT has answered: endChatSession(key, 'agent_offline') for each row.
updateAgentAvailability_select(h) ==
    /\ tasks[h].pc = "ua_select"
    /\ LET t == tasks[h]
       IN SetTask(h, endChatSession_loop([t EXCEPT !.todo = ActiveSessionKeys(t.agent)],
                                         activeSessions))
    /\ UNCHANGED <<clockVars, rateVars, progVars, bcVars, agentVars, nTasks>>

\* MAX(m.created_at) of the messages of a session: Null when it has none
LastActivity(sessionId) ==
    LET times == {m.created_at : m \in {x \in messages : x.chat_session_id = sessionId}}
    IN IF times = {} THEN Null
       ELSE Some(CHOOSE x \in times : \A y \in times : y <= x)

\* SELECT cs.*, MAX(m.created_at) AS last_activity ... WHERE cs.status = 'active'
\* GROUP BY cs.id
\* HAVING last_activity < DATE_SUB(NOW(), INTERVAL 1 HOUR) OR last_activity IS NULL
OldSessions ==
    LET ids == Ascending({i \in 1..Len(chat_sessions) :
                             /\ chat_sessions[i].status = "active"
                             /\ \/ LastActivity(i) = Null
                                \/ LastActivity(i)[1] < now - IdleThresholdMs})
    IN [k \in 1..Len(ids) |-> chat_sessions[ids[k]].session_key]

\* The hourly interval of startSessionCleanup fires: cleanupOldSessions
\* issues its SELECT.
cleanupOldSessions(h) ==
    /\ Free(h)
    /\ cleanupDue <= now
    /\ cleanupDue' = cleanupDue + CleanupIntervalMs
    /\ SetTask(h, [IdleTask EXCEPT !.kind = "sweep", !.pc = "cl_select", !.ret = "sweep"])
    /\ UNCHANGED <<clockVars, rateVars, progVars, bcVars, server, agents, messages,
                   chat_sessions, activeSessions, pendingConnections, sessionTimeouts,
                   connTimers, nTasks>>

\* The SELECT has answered: endChatSession(key, 'abandoned') for each row,
\* then the old pending requests are dropped.
cleanupOldSessions_select(h) ==
    /\ tasks[h].pc = "cl_select"
    /\ LET t == tasks[h]
       IN ContinueAs(h, t, endChatSession_loop([t EXCEPT !.todo = OldSessions],
                                               activeSessions))
    /\ UNCHANGED <<clockVars, rateVars, progVars, bcVars, server, agents, messages, cleanupDue,
                   chat_sessions, activeSessions, sessionTimeouts, connTimers, nTasks>>

\* the times at which the armed timers and the sweep are due
DueTimes ==
    {sessionTimeouts[k].due : k \in {x \in DOMAIN sessionTimeouts : ~sessionTimeouts[x].fired}}
    \cup {timer.due : timer \in connTimers} \cup {cleanupDue}

\* The clock advances to t; a timer fires when it is due, so the clock does
\* not pass a due time.
Elapse(t) ==
    /\ nTicks < MaxTicks
    /\ nTicks' = nTicks + 1
    /\ t > now
    /\ \A d \in DueTimes : t <= d
    /\ now' = t
    /\ UNCHANGED <<rateVars, agentVars, taskVars, progVars, bcVars>>

(***************************************************************************)
(* forwardAgentMessage, forwardUserMessage                                 *)
(***************************************************************************)
\* The chat message to the user was sent, or threw (caught).
forwardAgentMessage_send(h) ==
    /\ tasks[h].pc = "fam_send"
    /\ \E ok \in BOOLEAN :
         LET t == tasks[h]
         IN IF ok THEN SetTask(h, [t EXCEPT !.pc = "fam_log"])
            ELSE SetTask(h, StageReturns(t, TRUE))
    /\ UNCHANGED <<clockVars, rateVars, progVars, bcVars, agentVars, nTasks>>

\* The message is logged; resetSessionTimeout.
forwardAgentMessage_log(h) ==
    /\ tasks[h].pc = "fam_log"
    /\ sessionTimeouts' = resetSessionTimeout(sessionTimeouts, tasks[h].sess.sessionKey)
    /\ messages' = messages \cup {[chat_session_id |-> tasks[h].sess.sessionId,
                                    created_at |-> now]}
    /\ SetTask(h, StageReturns(tasks[h], TRUE))
    /\ UNCHANGED <<clockVars, rateVars, progVars, bcVars, server, agents, cleanupDue, chat_sessions, activeSessions,
                   pendingConnections, connTimers, nTasks>>

\* The chat message to the agent was sent, or threw (caught: returns false).
forwardUserMessage_send(h) ==
    /\ tasks[h].pc = "fum_send"
    /\ \E ok \in BOOLEAN :
         LET t == tasks[h]
         IN IF ok THEN SetTask(h, [t EXCEPT !.pc = "fum_log"])
            ELSE SetTask(h, StageReturns(t, FALSE))
    /\ UNCHANGED <<clockVars, rateVars, progVars, bcVars, agentVars, nTasks>>

\* The message is logged; resetSessionTimeout; returns true.
forwardUserMessage_log(h) ==
    /\ tasks[h].pc = "fum_log"
    /\ sessionTimeouts' = resetSessionTimeout(sessionTimeouts, tasks[h].sess.sessionKey)
    /\ messages' = messages \cup {[chat_session_id |-> tasks[h].sess.sessionId,
                                    created_at |-> now]}
    /\ SetTask(h, StageReturns(tasks[h], TRUE))
    /\ UNCHANGED <<clockVars, rateVars, progVars, bcVars, server, agents, cleanupDue, chat_sessions, activeSessions,
                   pendingConnections, connTimers, nTasks>>

(***************************************************************************)
(* requestAgentConnection                                                  *)
(***************************************************************************)
\* getAvailableAgents: active, available agents below their capacity
AvailableAgents ==
    {a \in AgentIds : /\ agents[a].is_active
                      /\ agents[a].is_available
                      /\ ActiveChats(a) < agents[a].max_concurrent_chats}

\* ORDER BY active_chats ASC, RAND(): the possible row orders
AgentOrders(S) ==
    {o \in [1..Cardinality(S) -> S] :
        /\ \A i, j \in DOMAIN o : i # j => o[i] # o[j]
        /\ \A i, j \in DOMAIN o : i < j => ActiveChats(o[i]) <= ActiveChats(o[j])}

HasPending(userPhone) == \E i \in 1..Len(pendingConnections) :
                             pendingConnections[i].userPhone = userPhone

\* requestAgentConnection(userPhone, ...) is called: the active-session and
\* already-pending checks, then getAvailableAgents is awaited.
requestAgentConnection(h, userPhone) ==
    /\ Free(h)
    /\ nTasks < MaxTasks
    /\ nTasks' = nTasks + 1
    /\ LET t == [IdleTask EXCEPT !.kind = "req", !.from = userPhone, !.seq = nTasks + 1]
       IN IF getActiveSessionByUser(userPhone) # NoSess
          THEN SetTask(h, [t EXCEPT !.pc = "rq_reply", !.sending = "already_active"])
          ELSE IF HasPending(userPhone)
          THEN SetTask(h, [t EXCEPT !.pc = "rq_reply", !.sending = "already_pending"])
          ELSE SetTask(h, [t EXCEPT !.pc = "rq_agents"])
    /\ UNCHANGED <<clockVars, rateVars, progVars, bcVars, agentVars>>

\* getAvailableAgents has answered: the request is stored and the first
\* agent is messaged; or nobody is available.
requestAgentConnection_agents(h) ==
    /\ tasks[h].pc = "rq_agents"
    /\ LET t == tasks[h]
       IN IF AvailableAgents = {}
          THEN /\ SetTask(h, [t EXCEPT !.pc = "rq_reply", !.sending = "busy"])
               /\ UNCHANGED pendingConnections
          ELSE /\ pendingConnections' =
                      MapSet(pendingConnections, LAMBDA e : e.userPhone = t.from,
                             [userPhone |-> t.from, contactId |-> ContactOf(t.from),
                              requestTime |-> now, notifiedAgents |-> <<>>])
               /\ \E o \in AgentOrders(AvailableAgents) :
                      SetTask(h, [t EXCEPT !.pc = "rq_notify", !.todo = o])
    /\ UNCHANGED <<clockVars, rateVars, progVars, bcVars, server, agents, messages, cleanupDue, chat_sessions, activeSessions,
                   sessionTimeouts, connTimers, nTasks>>

\* One agent was messaged (or the send threw, caught at the end):
\* pendingConnections.get(userPhone).notifiedAgents.push(agent.id), which
\* throws a TypeError when the request is gone.
requestAgentConnection_notify(h) ==
    /\ tasks[h].pc = "rq_notify"
    /\ \E ok \in BOOLEAN :
         LET t == tasks[h]
             hit == SelectIdx(pendingConnections, LAMBDA e : e.userPhone = t.from)
         IN IF ~ok \/ hit = {}
            THEN /\ SetTask(h, Done(t))
                 /\ UNCHANGED pendingConnections
            ELSE /\ pendingConnections' =
                        [pendingConnections EXCEPT ![MinOf(hit)].notifiedAgents =
                            Append(@, Head(t.todo))]
                 /\ SetTask(h, [t EXCEPT !.todo = Tail(t.todo),
                                         !.pc = IF Len(t.todo) = 1 THEN "rq_user"
                                                ELSE "rq_notify"])
    /\ UNCHANGED <<clockVars, rateVars, progVars, bcVars, server, agents, messages, cleanupDue, chat_sessions, activeSessions,
                   sessionTimeouts, connTimers, nTasks>>

\* The user was told that the request was sent: the 5 minute timeout is armed.
requestAgentConnection_user(h) ==
    /\ tasks[h].pc = "rq_user"
    /\ \E ok \in BOOLEAN :
         LET t == tasks[h]
         IN /\ SetTask(h, Done(t))
            /\ connTimers' = IF ok
                             THEN connTimers \cup {[userPhone |-> t.from,
                                                    due |-> now + ConnectionTimeoutMs]}
                             ELSE connTimers
    /\ UNCHANGED <<clockVars, rateVars, progVars, bcVars, server, agents, messages, cleanupDue, chat_sessions, activeSessions,
                   pendingConnections, sessionTimeouts, nTasks>>

\* The reply of a request that queued nothing.
requestAgentConnection_reply(h) ==
    /\ tasks[h].pc = "rq_reply"
    /\ \E ok \in BOOLEAN :
         LET t == tasks[h]
         IN SetTask(h, Done(t))
    /\ UNCHANGED <<clockVars, rateVars, progVars, bcVars, agentVars, nTasks>>

(***************************************************************************)
(* ProgramEngine                                                           *)
(***************************************************************************)
STR_help == <<"h", "e", "l", "p">>
STR_agent == <<"a", "g", "e", "n", "t">>
STR_support == <<"s", "u", "p", "p", "o", "r", "t">>
STR_shaliach == <<"ש", "ל", "י", "ח">>

Condition(type, value, next_step_id) ==
    [type |-> type, value |-> value, next_step_id |-> next_step_id, min |-> 0, max |-> 0]

NumberRange(min, max, next_step_id) ==
    [type |-> "number_range", value |-> <<>>, next_step_id |-> next_step_id,
     min |-> min, max |-> max]

Validator(type, value) == [type |-> type, value |-> value]

\* The programs of the database (seed.js): the base program and the
\* welcome program.  steps[i] of the code is steps[i + 1] here.
baseProgramData ==
    <<[NoStep EXCEPT !.id = 0, !.type = "condition",
                     !.conditions = <<Condition("contains", STR_help, 1),
                                      Condition("contains", STR_shaliach, 2)>>],
      [NoStep EXCEPT !.id = 1, !.type = "message", !.content = "How can I help you?"],
      [NoStep EXCEPT !.id = 2, !.type = "agent_connect",
                     !.message = "User requested agent connection"]>>

welcomeProgramData ==
    <<[NoStep EXCEPT !.id = 0, !.type = "message", !.content = "Welcome",
                     !.next_step_id = Some(1)],
      [NoStep EXCEPT !.id = 1, !.type = "delay", !.delay = 300,
                     !.next_step_id = Some(2)],
      [NoStep EXCEPT !.id = 2, !.type = "message", !.content = "You can reply help"]>>

ProgramIds == {1, 2}

Programs ==
    [p \in ProgramIds |->
        IF p = 1
        THEN [is_base_program |-> TRUE, is_active |-> TRUE, program_data |-> baseProgramData]
        ELSE [is_base_program |-> FALSE, is_active |-> TRUE,
              program_data |-> welcomeProgramData]]

\* SELECT * FROM programs WHERE is_base_program = TRUE AND is_active = TRUE
BasePrograms ==
    Ascending({p \in ProgramIds : programs[p].is_base_program /\ programs[p].is_active})

\* programData.steps[i]: <<>> (undefined) outside the array
StepAt(steps, i) == IF i >= 0 /\ i < Len(steps) THEN <<steps[i + 1]>> ELSE <<>>

\* programData.steps[programState.current_step] || programData.steps[0]
CurrentStep(steps, current_step) ==
    IF StepAt(steps, current_step) # <<>> THEN StepAt(steps, current_step)
    ELSE StepAt(steps, 0)

(***************************************************************************)
(* parseFloat, on the strings of the model: leading whitespace, a sign,    *)
(* digits, a fraction.  The number is kept in hundredths.                  *)
(***************************************************************************)
IsDigit(c) == c \in {"0", "1", "2", "3", "4", "5", "6", "7", "8", "9"}

DigitVal(c) ==
    CASE c = "0" -> 0 [] c = "1" -> 1 [] c = "2" -> 2 [] c = "3" -> 3 [] c = "4" -> 4
      [] c = "5" -> 5 [] c = "6" -> 6 [] c = "7" -> 7 [] c = "8" -> 8 [] c = "9" -> 9

\* the number of leading characters of str that satisfy Test
Run(str, Test(_)) ==
    LET stop == {i \in 1..Len(str) : ~Test(str[i])}
    IN IF stop = {} THEN Len(str) ELSE MinOf(stop) - 1

Drop(str, n) == SubSeq(str, n + 1, Len(str))

RECURSIVE DigitsValue(_)
DigitsValue(ds) ==
    IF ds = <<>> THEN 0 ELSE 10 * DigitsValue(SubSeq(ds, 1, Len(ds) - 1)) + DigitVal(ds[Len(ds)])

NaN == [nan |-> TRUE, num |-> 0]

\* the text after its leading whitespace
SkipSpaces(str) == Drop(str, Run(str, LAMBDA c : c = Space))

\* the text after its sign, if it has one
Unsigned(s0) == IF s0 # <<>> /\ Head(s0) \in {"-", "+"} THEN Tail(s0) ELSE s0

IsNegative(s0) == s0 # <<>> /\ Head(s0) = "-"

\* the digits after a decimal point that starts s2
FractionOf(s2) ==
    IF s2 # <<>> /\ Head(s2) = "." THEN SubSeq(Tail(s2), 1, Run(Tail(s2), IsDigit))
    ELSE <<>>

Hundredths(frac) ==
    IF Len(frac) = 0 THEN 0
    ELSE IF Len(frac) = 1 THEN 10 * DigitVal(frac[1])
    ELSE 10 * DigitVal(frac[1]) + DigitVal(frac[2])

\* the number of a sign, integer digits and fraction digits
NumberOf(negative, intDigits, frac) ==
    IF intDigits = <<>> /\ frac = <<>> THEN NaN
    ELSE [nan |-> FALSE,
          num |-> IF negative THEN 0 - (100 * DigitsValue(intDigits) + Hundredths(frac))
                  ELSE 100 * DigitsValue(intDigits) + Hundredths(frac)]

ParseUnsigned(negative, s1) ==
    NumberOf(negative, SubSeq(s1, 1, Run(s1, IsDigit)),
             FractionOf(Drop(s1, Run(s1, IsDigit))))

parseFloat(str) == ParseUnsigned(IsNegative(SkipSpaces(str)), Unsigned(SkipSpaces(str)))

\* evaluateCondition(condition, userMessage, stepData); a regex value is a
\* literal text here; min and max of number_range are in hundredths
evaluateCondition(condition, userMessage) ==
    CASE condition.type = "equals" ->
             trim(toLowerCase(userMessage)) = toLowerCase(condition.value)
      [] condition.type = "contains" ->
             includes(toLowerCase(userMessage), toLowerCase(condition.value))
      [] condition.type = "starts_with" ->
             startsWith(toLowerCase(userMessage), toLowerCase(condition.value))
      [] condition.type = "regex" ->
             includes(toLowerCase(userMessage), toLowerCase(condition.value))
      [] condition.type = "number_range" ->
             LET num == parseFloat(userMessage)
             IN ~num.nan /\ num.num >= condition.min /\ num.num <= condition.max
      [] OTHER -> FALSE

\* the loop of executeConditionStep: the first condition that matches,
\* <<>> when none does
RECURSIVE FirstMatch(_, _)
FirstMatch(conditions, userMessage) ==
    IF conditions = <<>> THEN <<>>
    ELSE IF evaluateCondition(Head(conditions), userMessage) THEN <<Head(conditions)>>
    ELSE FirstMatch(Tail(conditions), userMessage)

\* evaluateCondition with userMessage = null (a scheduler run): the text
\* conditions throw a TypeError, regex tests the text "null", number_range
\* sees NaN
STR_null == <<"n", "u", "l", "l">>

RECURSIVE ThrowsOnNull(_)
ThrowsOnNull(conditions) ==
    IF conditions = <<>> THEN FALSE
    ELSE IF Head(conditions).type \in {"equals", "contains", "starts_with"} THEN TRUE
    ELSE IF evaluateCondition(Head(conditions), STR_null) THEN FALSE
    ELSE ThrowsOnNull(Tail(conditions))

\* `else if (step.default_next_step_id)`
HasDefault(step) == Truthy(step.default_next_step_id)

\* executeConditionStep: the value written to current_step
ConditionTarget(step, userMessage, current_step) ==
    LET matchedCondition == FirstMatch(step.conditions, userMessage)
    IN IF matchedCondition # <<>> THEN matchedCondition[1].next_step_id
       ELSE IF HasDefault(step) THEN step.default_next_step_id[1]
       ELSE current_step + 1

\* /^[^\s@]+@[^\s@]+\.[^\s@]+$/
emailRegex(input) ==
    LET ats == {i \in 1..Len(input) : input[i] = "@"}
    IN /\ Cardinality(ats) = 1
       /\ \A i \in 1..Len(input) : input[i] # Space
       /\ LET at == CHOOSE i \in ats : TRUE
          IN /\ at > 1
             /\ \E d \in (at + 2)..(Len(input) - 1) : input[d] = "."

\* /^\+?[\d\s\-\(\)]+$/
phoneRegex(input) ==
    LET body == IF input # <<>> /\ Head(input) = "+" THEN Tail(input) ELSE input
    IN /\ body # <<>>
       /\ \A i \in 1..Len(body) : IsDigit(body[i]) \/ body[i] \in {Space, "-", "(", ")"}

\* one validator of validateInput: TRUE when it rejects the input
Rejects(validator, input) ==
    CASE validator.type = "required" -> input = <<>> \/ Len(trim(input)) = 0
      [] validator.type = "min_length" -> Len(input) < validator.value
      [] validator.type = "max_length" -> Len(input) > validator.value
      [] validator.type = "numeric" -> parseFloat(input).nan
      [] validator.type = "email" -> ~emailRegex(input)
      [] validator.type = "phone" -> ~phoneRegex(input)
      [] OTHER -> FALSE

validateInput(input, validators) ==
    \A i \in 1..Len(validators) : ~Rejects(validators[i], input)

\* step.variable_name || 'user_input'
VariableName(step) == IF step.variable_name = "" THEN "user_input" ELSE step.variable_name

(***************************************************************************)
(* program_states                                                          *)
(***************************************************************************)
\* a program_states table without its unique key
NoUniqueKey(rows, programId, contactId) == FALSE

\* UNIQUE KEY unique_program_contact (program_id, contact_id): the INSERT
\* of createProgramState fails when the pair has a row
DuplicateKey(rows, programId, contactId) ==
    \E i \in 1..Len(rows) : rows[i].program_id = programId /\ rows[i].contact_id = contactId

\* the object a handler holds of a row (SELECT *, or createProgramState's result)
StateObject(id, row) ==
    [id |-> id, program_id |-> row.program_id, contact_id |-> row.contact_id,
     current_step |-> row.current_step, step_data |-> row.step_data]

NewStateRow(programId, contactId) ==
    [program_id |-> programId, contact_id |-> contactId, current_step |-> 0,
     step_data |-> EmptyObject, is_paused |-> FALSE, next_action_at |-> Null]

\* SELECT * FROM program_states WHERE program_id = ? AND contact_id = ?
StateRowsOf(programId, contactId) ==
    {i \in 1..Len(program_states) : /\ program_states[i].program_id = programId
                                    /\ program_states[i].contact_id = contactId}

\* processContactPrograms' SELECT: the contact's rows that are not paused,
\* of active programs
ActiveStatesOf(contactId) ==
    {i \in 1..Len(program_states) : /\ program_states[i].contact_id = contactId
                                    /\ ~program_states[i].is_paused
                                    /\ programs[program_states[i].program_id].is_active}

\* executeScheduledPrograms' SELECT: rows that are due
PendingStates ==
    {i \in 1..Len(program_states) : /\ program_states[i].next_action_at # Null
                                    /\ program_states[i].next_action_at[1] <= now
                                    /\ ~program_states[i].is_paused
                                    /\ programs[program_states[i].program_id].is_active}

\* the phone of a contact (JOIN contacts)
PhoneOf(contactId) == CHOOSE p \in Phones : ContactOf(p) = contactId

\* universal triggers of checkAgentTriggers, and the agents' trigger_words
universalTriggers == <<STR_help, STR_agent, STR_support, STR_shaliach>>

Triggered(message) ==
    \/ \E a \in AgentIds :
          /\ agents[a].is_active /\ agents[a].is_available
          /\ \E i \in 1..Len(agents[a].trigger_words) :
                includes(toLowerCase(message), toLowerCase(agents[a].trigger_words[i]))
    \/ \E i \in 1..Len(universalTriggers) :
          includes(toLowerCase(message), universalTriggers[i])

(***************************************************************************)
(* The pieces of processMessage.  t.ret says who called executeStep:       *)
(* "base" (executeProgram), "sched" (executeScheduledPrograms) or "call".  *)
(***************************************************************************)
\* processBaseProgram's loop; after it processContactPrograms' SELECT
processBaseProgram_loop(t) ==
    IF t.todo = <<>> THEN [t EXCEPT !.pc = "pcp_select"]
    ELSE [t EXCEPT !.pc = "ep_get", !.prog = Head(t.todo), !.todo = Tail(t.todo),
                   !.ret = "base"]

\* executeStep up to the first await of the step, or to its synchronous
\* return ("returned") or throw ("threw")
executeStep_first(t) ==
    LET step == t.step
        type == step.type
    IN CASE type = "message" -> [t EXCEPT !.pc = "st_send"]
         [] type = "delay" -> [t EXCEPT !.pc = "st_delay", !.target = now + step.delay * 1000]
         [] type = "condition" ->
                IF t.nullMsg /\ ThrowsOnNull(step.conditions) THEN [t EXCEPT !.pc = "threw"]
                ELSE [t EXCEPT !.pc = "st_goto",
                               !.target = ConditionTarget(step, t.text, t.ps.current_step)]
         [] type = "input" ->
                IF t.nullMsg \/ t.text = <<>> THEN [t EXCEPT !.pc = "returned"]
                ELSE IF ~validateInput(t.text, step.validators)
                THEN IF step.error_message # "" THEN [t EXCEPT !.pc = "threw"]
                     ELSE [t EXCEPT !.pc = "returned"]
                ELSE [t EXCEPT !.pc = "st_input"]
         [] type = "agent_connect" -> [t EXCEPT !.pc = "pra_select", !.after = "pause"]
         [] OTHER -> [t EXCEPT !.pc = "returned"]

\* executeScheduledPrograms' loop body for the i-th of the remaining due rows
executeScheduledPrograms_row(t, i) ==
    LET state == t.todo[i]
        currentStep == StepAt(t.progs[state.program_id].program_data,
                              state.current_step)
        t1 == [t EXCEPT !.todo = SubSeq(t.todo, i + 1, Len(t.todo)), !.ps = state,
                        !.prog = state.program_id,
                        !.from = PhoneOf(state.contact_id)]
    IN IF currentStep = <<>> THEN [t1 EXCEPT !.pc = "returned"]
       ELSE executeStep_first([t1 EXCEPT !.step = currentStep[1]])

\* executeScheduledPrograms' loop over the due rows it selected: rows whose
\* step returns at once are passed over; a throw ends the loop in its catch
executeScheduledPrograms_loop(t) ==
    LET stops == {i \in 1..Len(t.todo) : executeScheduledPrograms_row(t, i).pc # "returned"}
    IN IF stops = {} THEN Done(t)
       ELSE LET r == executeScheduledPrograms_row(t, MinOf(stops))
            IN IF r.pc = "threw" THEN Done(t) ELSE r

\* executeStep returns to its caller
StepReturns(t) ==
    CASE t.ret = "base" -> processBaseProgram_loop(t)
      [] t.ret = "sched" -> executeScheduledPrograms_loop(t)
      [] OTHER -> [t EXCEPT !.pc = "returned"]

\* executeStep throws: executeProgram catches and returns; the scheduler's
\* catch ends its loop
StepThrows(t) ==
    CASE t.ret = "base" -> processBaseProgram_loop(t)
      [] t.ret = "sched" -> Done(t)
      [] OTHER -> [t EXCEPT !.pc = "threw"]

\* executeStep, continued in its caller when the step returns or throws
\* before any await
executeStep_entry(t) ==
    LET r == executeStep_first(t)
    IN CASE r.pc = "returned" -> StepReturns(t)
         [] r.pc = "threw" -> StepThrows(t)
         [] OTHER -> r

\* executeProgram once it holds the program state
executeProgram_step(t) ==
    LET currentStep == CurrentStep(t.progs[t.prog].program_data, t.ps.current_step)
    IN IF currentStep = <<>> THEN StepReturns(t)
       ELSE executeStep_entry([t EXCEPT !.step = currentStep[1]])

\* processBaseProgram: the base programs were selected (t.progs holds the
\* rows, with their program_data, as the SELECT returned them)
processMessage(h) ==
    /\ tasks[h].pc = "pm_base"
    /\ SetTask(h, processBaseProgram_loop([tasks[h] EXCEPT !.todo = BasePrograms,
                                                          !.progs = programs]))
    /\ UNCHANGED <<clockVars, rateVars, agentVars, progVars, bcVars, nTasks>>

\* getProgramState: the SELECT has answered
getProgramState(h) ==
    /\ tasks[h].pc = "ep_get"
    /\ LET t == tasks[h]
           rows == StateRowsOf(t.prog, ContactOf(t.from))
       IN IF rows # {}
          THEN SetTask(h, executeProgram_step(
                   [t EXCEPT !.ps = StateObject(MinOf(rows), program_states[MinOf(rows)])]))
          ELSE SetTask(h, [t EXCEPT !.pc = "ep_create"])
    /\ UNCHANGED <<clockVars, rateVars, agentVars, progVars, bcVars, nTasks>>

\* assignProgram's loops: the INSERT INTO program_assignments for the next
\* contact id of contactIds (group 0), createProgramState's INSERT for the
\* next contact of the current group, the INSERT INTO program_assignments
\* for the next group id, or the return of the call
assignProgram_loop(t) ==
    IF t.todo # <<>>
    THEN [t EXCEPT !.pc = IF t.group = 0 THEN "as_assign" ELSE "ep_create",
                   !.target = Head(t.todo)]
    ELSE IF t.group < Len(t.groupIds)
    THEN [t EXCEPT !.pc = "as_group", !.group = t.group + 1]
    ELSE Done(t)

\* createProgramState: the INSERT has answered, with the new row or with a
\* duplicate-key error (executeProgram catches it, assignProgram rethrows it
\* out of its loops)
createProgramState(h) ==
    /\ tasks[h].pc = "ep_create"
    /\ LET t == tasks[h]
           contactId == IF t.kind = "assign" THEN t.target ELSE ContactOf(t.from)
           row == NewStateRow(t.prog, contactId)
       IN IF DuplicateKey(program_states, t.prog, contactId)
          THEN /\ SetTask(h, IF t.kind = "assign" THEN Done(t) ELSE StepThrows(t))
               /\ UNCHANGED program_states
          ELSE /\ program_states' = Append(program_states, row)
               /\ SetTask(h, IF t.kind = "assign"
                             THEN assignProgram_loop([t EXCEPT !.todo = Tail(t.todo)])
                             ELSE executeProgram_step(
                                 [t EXCEPT !.ps = StateObject(Len(program_states) + 1, row)]))
    /\ UNCHANGED <<clockVars, rateVars, agentVars, outbound, bcVars, nTasks, programs>>

\* a catch of executeMessageStep that goes on to advanceToNextStep
executeMessageStep_skip(t) ==
    [t EXCEPT !.pc = "st_goto", !.target = t.ps.current_step + 1]

\* the catch of executeMessageStep: the error is logged and the step returns
executeMessageStep_catch(t) == StepReturns(t)

\* executeMessageStep: the send has succeeded (advanceToNextStep is called)
\* or thrown (caught by executeMessageStep)
executeMessageStep(h) ==
    /\ tasks[h].pc = "st_send"
    /\ \E ok \in BOOLEAN :
         LET t == tasks[h]
         IN IF ok
            THEN /\ outbound' = Append(outbound, [to |-> t.from, content |-> t.step.content,
                                                  by |-> t.kind, state |-> t.ps.id,
                                                  step |-> t.ps.current_step])
                 /\ SetTask(h, [t EXCEPT !.pc = "st_goto", !.target = t.ps.current_step + 1])
            ELSE /\ SetTask(h, executeMessageStep_catch(t))
                 /\ UNCHANGED outbound
    /\ UNCHANGED <<clockVars, rateVars, agentVars, program_states, bcVars, nTasks, programs>>

\* UPDATE program_states SET current_step = ?, next_action_at = NULL WHERE id = ?
SetCurrentStep(rows, id, stepId) ==
    [rows EXCEPT ![id] = [@ EXCEPT !.current_step = stepId, !.next_action_at = Null]]

\* advanceToNextStep / jumpToStep: the UPDATE is done
jumpToStep(h) ==
    /\ tasks[h].pc = "st_goto"
    /\ program_states' = SetCurrentStep(program_states, tasks[h].ps.id, tasks[h].target)
    /\ SetTask(h, StepReturns(tasks[h]))
    /\ UNCHANGED <<clockVars, rateVars, agentVars, outbound, bcVars, nTasks, programs>>

\* executeDelayStep: UPDATE program_states SET next_action_at = ?, step_data = ?
executeDelayStep(h) ==
    /\ tasks[h].pc = "st_delay"
    /\ program_states' =
           [program_states EXCEPT ![tasks[h].ps.id] =
               [@ EXCEPT !.next_action_at = Some(tasks[h].target),
                         !.step_data = SetKey(EmptyObject, "waiting_for_delay", JSON_true)]]
    /\ SetTask(h, StepReturns(tasks[h]))
    /\ UNCHANGED <<clockVars, rateVars, agentVars, outbound, bcVars, nTasks, programs>>

\* executeInputStep: the UPDATE of step_data is done; advanceToNextStep
executeInputStep(h) ==
    /\ tasks[h].pc = "st_input"
    /\ LET t == tasks[h]
           stepData == SetKey(t.ps.step_data, VariableName(t.step), JsonString(t.text))
       IN /\ program_states' = [program_states EXCEPT ![t.ps.id].step_data = stepData]
          /\ SetTask(h, [t EXCEPT !.pc = "st_goto", !.target = t.ps.current_step + 1])
    /\ UNCHANGED <<clockVars, rateVars, agentVars, outbound, bcVars, nTasks, programs>>

\* ProgramEngine.requestAgentConnection returns (it catches its errors)
requestAgentConnection_returns(t) ==
    IF t.after = "pause" THEN [t EXCEPT !.pc = "st_pause"] ELSE Done(t)

\* ProgramEngine.requestAgentConnection: the available agents were
\* selected; they are messaged one by one, then the user
ProgramEngine_requestAgentConnection(h) ==
    /\ tasks[h].pc = "pra_select"
    /\ LET t == tasks[h]
       IN IF AvailableAgents = {}
          THEN SetTask(h, [t EXCEPT !.pc = "pra_send", !.todo = <<t.from>>])
          ELSE \E o \in AgentOrders(AvailableAgents) :
                  SetTask(h, [t EXCEPT !.pc = "pra_send",
                                       !.todo = [i \in 1..Len(o) |-> agents[o[i]].phone]
                                                \o <<t.from>>])
    /\ UNCHANGED <<clockVars, rateVars, agentVars, progVars, bcVars, nTasks>>

\* one of its sends has succeeded or thrown
ProgramEngine_requestAgentConnection_send(h) ==
    /\ tasks[h].pc = "pra_send"
    /\ \E ok \in BOOLEAN :
         LET t == tasks[h]
         IN IF ok /\ Len(t.todo) > 1 THEN SetTask(h, [t EXCEPT !.todo = Tail(t.todo)])
            ELSE SetTask(h, requestAgentConnection_returns([t EXCEPT !.todo = <<>>]))
    /\ UNCHANGED <<clockVars, rateVars, agentVars, progVars, bcVars, nTasks>>

\* executeAgentConnectStep: UPDATE program_states SET is_paused = TRUE, step_data = ?
executeAgentConnectStep(h) ==
    /\ tasks[h].pc = "st_pause"
    /\ program_states' =
           [program_states EXCEPT ![tasks[h].ps.id] =
               [@ EXCEPT !.is_paused = TRUE,
                         !.step_data = SetKey(EmptyObject, "waiting_for_agent", JSON_true)]]
    /\ SetTask(h, StepReturns(tasks[h]))
    /\ UNCHANGED <<clockVars, rateVars, agentVars, outbound, bcVars, nTasks, programs>>

\* processContactPrograms: the contact's active states were selected; for
\* the first one this.processUserResponse, which does not exist, is called:
\* the TypeError ends processMessage
processContactPrograms(h) ==
    /\ tasks[h].pc = "pcp_select"
    /\ LET t == tasks[h]
       IN IF ActiveStatesOf(ContactOf(t.from)) # {} THEN SetTask(h, Done(t))
          ELSE SetTask(h, [t EXCEPT !.pc = "cat_select"])
    /\ UNCHANGED <<clockVars, rateVars, agentVars, progVars, bcVars, nTasks>>

\* checkAgentTriggers: the agents were selected
checkAgentTriggers(h) ==
    /\ tasks[h].pc = "cat_select"
    /\ LET t == tasks[h]
       IN IF Triggered(t.text)
          THEN SetTask(h, [t EXCEPT !.pc = "pra_select", !.after = "done"])
          ELSE SetTask(h, Done(t))
    /\ UNCHANGED <<clockVars, rateVars, agentVars, progVars, bcVars, nTasks>>

\* The 10 second interval fires: executeScheduledPrograms issues its SELECT.
executeScheduledPrograms(h) ==
    /\ Free(h)
    /\ nTasks < MaxTasks
    /\ nTasks' = nTasks + 1
    /\ SetTask(h, [IdleTask EXCEPT !.kind = "sched", !.pc = "sch_select",
                                   !.seq = nTasks + 1, !.nullMsg = TRUE,
                                   !.text = STR_null])
    /\ UNCHANGED <<clockVars, rateVars, agentVars, progVars, bcVars>>

\* its SELECT has answered with the due rows
executeScheduledPrograms_select(h) ==
    /\ tasks[h].pc = "sch_select"
    /\ LET due == Ascending(PendingStates)
       IN SetTask(h, executeScheduledPrograms_loop(
              [tasks[h] EXCEPT !.ret = "sched", !.progs = programs,
                               !.todo = [i \in 1..Len(due) |->
                                            StateObject(due[i], program_states[due[i]])]]))
    /\ UNCHANGED <<clockVars, rateVars, agentVars, progVars, bcVars, nTasks>>

\* assignProgram(programId, contactIds, groupIds) is called: the first
\* INSERT INTO program_assignments is issued
assignProgram(h, programId, contactIds, groupIds) ==
    /\ Free(h)
    /\ nTasks < MaxTasks
    /\ nTasks' = nTasks + 1
    /\ SetTask(h, assignProgram_loop(
           [IdleTask EXCEPT !.kind = "assign", !.seq = nTasks + 1, !.prog = programId,
                            !.contactIds = contactIds, !.groupIds = groupIds,
                            !.todo = contactIds]))
    /\ UNCHANGED <<clockVars, rateVars, agentVars, progVars, bcVars>>

\* the assignment of the contact is upserted; createProgramState issues its
\* INSERT
assignProgram_assigned(h) ==
    /\ tasks[h].pc = "as_assign"
    /\ SetTask(h, [tasks[h] EXCEPT !.pc = "ep_create"])
    /\ UNCHANGED <<clockVars, rateVars, agentVars, progVars, bcVars, nTasks>>

\* the assignment of the group is upserted; SELECT contact_id FROM
\* contact_groups WHERE group_id = ? is issued
assignProgram_group(h) ==
    /\ tasks[h].pc = "as_group"
    /\ SetTask(h, [tasks[h] EXCEPT !.pc = "as_members"])
    /\ UNCHANGED <<clockVars, rateVars, agentVars, progVars, bcVars, nTasks>>

\* PUT /api/programs/:id: UPDATE programs SET program_data = ?, is_active = ?
updateProgram(id, program_data, is_active) ==
    /\ programs' = [programs EXCEPT ![id].program_data = program_data,
                                    ![id].is_active = is_active]
    /\ programs' # programs
    /\ UNCHANGED <<clockVars, rateVars, agentVars, taskVars, program_states, outbound, bcVars>>

InitProgram ==
    /\ program_states = <<>>
    /\ outbound = <<>>
    /\ programs = Programs

\* executeStep(programState, step, phone, userMessage, programData), called
\* on its own
executeStep(h) ==
    /\ tasks[h].pc = "exec_step"
    /\ SetTask(h, executeStep_entry(tasks[h]))
    /\ UNCHANGED <<clockVars, rateVars, agentVars, progVars, bcVars, nTasks>>

(***************************************************************************)
(* BroadcastSystem: createBroadcast                                        *)
(***************************************************************************)
\* Bounds of the broadcast model
MaxBroadcasts == 2
BulkSize == 1001
MaxPermuted == 3

\* `if (recipients.length > 1000)`
MaxBroadcastRecipients == 1000

BcIds == {1, 2}

\* contacts and contact_groups: contacts 1, 2, 3 (3 is not active) in the
\* groups 1 = {1, 2} and 2 = {2, 3}; group 3 holds BulkSize other contacts
SmallContacts == {1, 2, 3}
BulkFirst == Cardinality(SmallContacts) + 1
BulkContacts == BulkFirst..(BulkFirst + BulkSize - 1)
BcContacts == SmallContacts \cup BulkContacts
BcGroups == {1, 2, 3}
ContactIsActive(c) == c # 3
BcPhone(c) == <<"+1555", c>>
GroupMembers(g) ==
    CASE g = 1 -> {1, 2} [] g = 2 -> {2, 3} [] g = 3 -> BulkContacts

ActiveIn(S) == {c \in S : ContactIsActive(c)}

GroupRow(c, g) == [contact_id |-> c, phone |-> BcPhone(c), group_id |-> <<g>>]
ContactRow(c) == [contact_id |-> c, phone |-> BcPhone(c), group_id |-> Null]

\* the rows of one group, by contact id
GroupRows(g) ==
    IF g = 3 THEN [i \in 1..Cardinality(ActiveIn(BulkContacts)) |->
                      GroupRow(BulkFirst + i - 1, g)]
    ELSE LET cs == Ascending(ActiveIn(GroupMembers(g)))
         IN [i \in 1..Len(cs) |-> GroupRow(cs[i], g)]

RECURSIVE Concat(_)
Concat(seqs) == IF seqs = <<>> THEN <<>> ELSE Head(seqs) \o Concat(Tail(seqs))

\* SELECT DISTINCT c.id, c.phone, cg.group_id ... WHERE cg.group_id IN (...)
\* AND c.is_active = TRUE, in one row order
GroupContacts(groupIds) ==
    LET gs == Ascending(groupIds)
    IN Concat([i \in 1..Len(gs) |-> GroupRows(gs[i])])

\* SELECT id, phone FROM contacts WHERE id IN (...) AND is_active = TRUE
SpecificContacts(contactIds) ==
    LET cs == Ascending(ActiveIn(contactIds \cap BcContacts))
    IN [i \in 1..Len(cs) |-> ContactRow(cs[i])]

\* The row orders a result set may come in (all of them for a short result).
RowOrders(rows) ==
    IF Len(rows) > MaxPermuted THEN {rows}
    ELSE {[i \in 1..Len(rows) |-> rows[p[i]]] :
             p \in {q \in [1..Len(rows) -> 1..Len(rows)] :
                       \A i, j \in 1..Len(rows) : i # j => q[i] # q[j]}}

\* assignProgram: SELECT contact_id FROM contact_groups WHERE group_id = ?
\* has answered with the contacts of the group, in some order
assignProgram_members(h) ==
    /\ tasks[h].pc = "as_members"
    /\ LET t == tasks[h]
       IN \E groupContacts \in RowOrders(Ascending(GroupMembers(t.groupIds[t.group]))) :
             SetTask(h, assignProgram_loop([t EXCEPT !.todo = groupContacts]))
    /\ UNCHANGED <<clockVars, rateVars, agentVars, progVars, bcVars, nTasks>>

\* a list that keeps a row for every result row
KeepsEveryRow(all, i) == TRUE

\* recipients.set(contact.phone, ...) for every row: a phone keeps the
\* place of its first entry and gets the value of its last row
IsFirstOfPhone(all, i) == \A j \in 1..(i - 1) : all[j].phone # all[i].phone

LastOfPhone(all, phone) ==
    LET S == {i \in 1..Len(all) : all[i].phone = phone}
    IN all[CHOOSE i \in S : \A j \in S : j <= i]

SetAll(recipients, rows) ==
    LET all == recipients \o rows
        kept == SelectSeq([i \in 1..Len(all) |-> i], LAMBDA i : IsFirstOfPhone(all, i))
    IN [k \in 1..Len(kept) |-> LastOfPhone(all, all[kept[k]].phone)]

\* a createBroadcast without the upper limit
NeverExceedsLimit(n) == FALSE

\* `recipients.length > 1000`
ExceedsLimit(n) == n > MaxBroadcastRecipients

IdleCall ==
    [pc |-> "idle", targetGroups |-> {}, targetContacts |-> {}, scheduled |-> FALSE,
     recipients |-> <<>>, broadcastId |-> 0, todo |-> <<>>]

ProcIds == {1, 2}
\* the frames of processScheduledBroadcasts: setInterval starts a poll every
\* 60 seconds whether or not the poll before it has returned
PollIds == {1, 2}

IdleProcessor ==
    [pc |-> "idle", broadcastId |-> 0, todo |-> <<>>, sentCount |-> 0, failedCount |-> 0,
     wake |-> 0]

IdlePoller == [pc |-> "idle", todo |-> <<>>]

\* a createBroadcast call starts in the first frame that is not running
FreeCall(b) ==
    LET free == {c \in BcIds : bcalls[c].pc \in {"idle", "failed", "returned"}}
    IN b \in free /\ \A c \in free : b <= c

\* createBroadcast after calculateRecipients: the two length checks, then
\* the INSERT of the broadcast is issued
createBroadcast_check(call) ==
    IF Len(call.recipients) = 0 \/ ExceedsLimit(Len(call.recipients))
    THEN [call EXCEPT !.pc = "failed"]
    ELSE [call EXCEPT !.pc = "cb_insert"]

\* calculateRecipients after the group query
calculateRecipients_afterGroups(call) ==
    IF call.targetContacts # {} THEN [call EXCEPT !.pc = "cr_contacts"]
    ELSE createBroadcast_check(call)

\* createBroadcast(name, messageContent, targetGroups, targetContacts,
\* scheduledAt) is called.
createBroadcast(b, targetGroups, targetContacts, scheduled) ==
    /\ FreeCall(b)
    /\ nBroadcasts < MaxBroadcasts
    /\ nBroadcasts' = nBroadcasts + 1
    /\ LET call == [IdleCall EXCEPT !.targetGroups = targetGroups,
                                    !.targetContacts = targetContacts,
                                    !.scheduled = scheduled]
       IN bcalls' = [bcalls EXCEPT ![b] =
              IF targetGroups # {} THEN [call EXCEPT !.pc = "cr_groups"]
              ELSE calculateRecipients_afterGroups(call)]
    /\ UNCHANGED <<clockVars, rateVars, agentVars, taskVars, progVars, broadcasts,
                   broadcast_recipients, sendingQueue, isProcessing, processor, pollers, cancels,
                   delivered>>

\* calculateRecipients: the group query has answered.
calculateRecipients_groups(b) ==
    /\ bcalls[b].pc = "cr_groups"
    /\ \E groupContacts \in RowOrders(GroupContacts(bcalls[b].targetGroups)) :
         bcalls' = [bcalls EXCEPT ![b] = calculateRecipients_afterGroups(
             [bcalls[b] EXCEPT !.recipients = SetAll(<<>>, groupContacts)])]
    /\ UNCHANGED <<clockVars, rateVars, agentVars, taskVars, progVars, broadcasts,
                   broadcast_recipients, sendingQueue, isProcessing, processor, pollers, cancels,
                   delivered, nBroadcasts>>

\* calculateRecipients: the contact query has answered.
calculateRecipients_contacts(b) ==
    /\ bcalls[b].pc = "cr_contacts"
    /\ \E specificContacts \in RowOrders(SpecificContacts(bcalls[b].targetContacts)) :
         bcalls' = [bcalls EXCEPT ![b] = createBroadcast_check(
             [bcalls[b] EXCEPT !.recipients = SetAll(bcalls[b].recipients,
                                                     specificContacts)])]
    /\ UNCHANGED <<clockVars, rateVars, agentVars, taskVars, progVars, broadcasts,
                   broadcast_recipients, sendingQueue, isProcessing, processor, pollers, cancels,
                   delivered, nBroadcasts>>

\* INSERT INTO broadcasts is done; the first recipient's INSERT is issued.
createBroadcast_insert(b) ==
    /\ bcalls[b].pc = "cb_insert"
    /\ broadcasts' = Append(broadcasts,
           [status |-> IF bcalls[b].scheduled THEN "scheduled" ELSE "draft",
            total_recipients |-> Len(bcalls[b].recipients),
            scheduled |-> bcalls[b].scheduled, sent_count |-> 0, failed_count |-> 0])
    /\ bcalls' = [bcalls EXCEPT ![b] = [@ EXCEPT !.pc = "cb_recipient",
                                                 !.broadcastId = Len(broadcasts) + 1,
                                                 !.todo = bcalls[b].recipients]]
    /\ UNCHANGED <<clockVars, rateVars, agentVars, taskVars, progVars,
                   broadcast_recipients, sendingQueue, isProcessing, processor, pollers, cancels,
                   delivered, nBroadcasts>>

\* INSERT INTO broadcast_recipients is done for one recipient; after the
\* last one startBroadcast issues its UPDATE, unless the broadcast is scheduled.
createBroadcast_recipient(b) ==
    /\ bcalls[b].pc = "cb_recipient"
    /\ LET call == bcalls[b]
           recipient == Head(call.todo)
       IN /\ broadcast_recipients' = Append(broadcast_recipients,
                 [broadcast_id |-> call.broadcastId, contact_id |-> recipient.contact_id,
                  group_id |-> recipient.group_id, phone |-> recipient.phone,
                  status |-> "pending"])
          /\ bcalls' = [bcalls EXCEPT ![b] =
                 [call EXCEPT !.todo = Tail(call.todo),
                              !.pc = IF Len(call.todo) > 1 THEN "cb_recipient"
                                     ELSE IF call.scheduled THEN "returned"
                                     ELSE "sb_update"]]
    /\ UNCHANGED <<clockVars, rateVars, agentVars, taskVars, progVars, broadcasts,
                   sendingQueue, isProcessing, processor, pollers,
                   cancels, delivered, nBroadcasts>>

\* a processBroadcastQueue call runs in the first frame that is idle
FreeProcessor(q) ==
    LET free == {r \in ProcIds : processor[r].pc = "idle"}
    IN q \in free /\ \A r \in free : q <= r

\* a processBroadcastQueue that does not mark itself as running
LeaveUnmarked(flag) == flag

\* `this.isProcessing = true`
MarkProcessing(flag) == TRUE

\* startBroadcast once its UPDATE broadcasts SET status = 'sending' is
\* done: the id is queued and processBroadcastQueue starts unless it is
\* running: it takes the head of the queue and processBroadcast issues its
\* first SELECT.
startBroadcast_queue(broadcastId) ==
    /\ broadcasts' = [broadcasts EXCEPT ![broadcastId].status = "sending"]
    /\ LET queue == Append(sendingQueue, broadcastId)
       IN IF isProcessing
          THEN /\ sendingQueue' = queue
               /\ UNCHANGED <<isProcessing, processor>>
          ELSE \E q \in ProcIds :
                  /\ FreeProcessor(q)
                  /\ isProcessing' = MarkProcessing(isProcessing)
                  /\ sendingQueue' = Tail(queue)
                  /\ processor' = [processor EXCEPT ![q] =
                         [IdleProcessor EXCEPT !.pc = "pb_select",
                                               !.broadcastId = Head(queue)]]

\* createBroadcast's startBroadcast
startBroadcast(b) ==
    /\ bcalls[b].pc = "sb_update"
    /\ startBroadcast_queue(bcalls[b].broadcastId)
    /\ bcalls' = [bcalls EXCEPT ![b] = [@ EXCEPT !.pc = "returned"]]
    /\ UNCHANGED <<clockVars, rateVars, agentVars, taskVars, progVars,
                   broadcast_recipients, pollers, cancels, delivered, nBroadcasts>>

(***************************************************************************)
(* BroadcastSystem: processBroadcastQueue and processBroadcast             *)
(***************************************************************************)
\* this.delay(60000) after a denied global check, in milliseconds
GlobalPauseMs == 60000

\* checkGlobalRateLimit: the first window that denies, at the time t
checkGlobalRateLimit(rows, cfg, t) ==
    IF ~checkGlobalWindow(rows, cfg, 1, t).allowed THEN checkGlobalWindow(rows, cfg, 1, t)
    ELSE IF ~checkGlobalWindow(rows, cfg, 2, t).allowed
    THEN checkGlobalWindow(rows, cfg, 2, t)
    ELSE checkGlobalWindow(rows, cfg, 3, t)

\* checkPhoneRateLimit: the first window that denies, at the time t
checkPhoneRateLimit_windows(rows, cfg, phone, t) ==
    IF ~checkPhoneWindow(rows, cfg, phone, 1, t).allowed
    THEN checkPhoneWindow(rows, cfg, phone, 1, t)
    ELSE IF ~checkPhoneWindow(rows, cfg, phone, 2, t).allowed
    THEN checkPhoneWindow(rows, cfg, phone, 2, t)
    ELSE checkPhoneWindow(rows, cfg, phone, 3, t)

\* updateRateLimit: the three upserts, at the time t
updateRateLimit_windows(rows, phone, t) ==
    UpsertRateLimit(
        UpsertRateLimit(
            UpsertRateLimit(rows, phone, "minute", WindowStart(t, "minute")),
            phone, "hour", WindowStart(t, "hour")),
        phone, "day", WindowStart(t, "day"))

\* SELECT * FROM broadcast_recipients WHERE broadcast_id = ? AND
\* status = 'pending' ORDER BY id
PendingRecipients(rows, broadcastId) ==
    Ascending({i \in 1..Len(rows) : /\ rows[i].broadcast_id = broadcastId
                                    /\ rows[i].status = "pending"})

\* markRecipientFailed: UPDATE broadcast_recipients SET status = 'failed'
markRecipientFailed(rows, recipientId) ==
    [rows EXCEPT ![recipientId].status = "failed"]

\* markRecipientSent: UPDATE broadcast_recipients SET status = 'sent'
markRecipientSent(rows, recipientId) ==
    [rows EXCEPT ![recipientId].status = "sent"]

\* updateBroadcastCounts: UPDATE broadcasts SET sent_count = sent_count + ?,
\* failed_count = failed_count + ?
updateBroadcastCounts(rows, broadcastId, sentCount, failedCount) ==
    [rows EXCEPT ![broadcastId].sent_count = @ + sentCount,
                 ![broadcastId].failed_count = @ + failedCount]

\* the top of processBroadcast's loop over the recipients: the next
\* recipient's global check is issued; after the last one
\* updateBroadcastCounts is issued
processBroadcast_loop(me) ==
    IF me.todo = <<>> THEN [me EXCEPT !.pc = "pb_counts"]
    ELSE [me EXCEPT !.pc = "pb_global"]

\* `continue` and the end of the loop body: on to the next recipient
processBroadcast_next(me) == processBroadcast_loop([me EXCEPT !.todo = Tail(me.todo)])

SetProcessor(q, me) == processor' = [processor EXCEPT ![q] = me]

\* processBroadcast: SELECT * FROM broadcasts WHERE id = ? has answered
processBroadcast(q) ==
    /\ processor[q].pc = "pb_select"
    /\ SetProcessor(q, [processor[q] EXCEPT !.pc = "pb_recipients"])
    /\ UNCHANGED <<clockVars, rateVars, agentVars, taskVars, progVars, broadcasts,
                   broadcast_recipients, sendingQueue, isProcessing, pollers, cancels,
                   delivered, bcalls, nBroadcasts>>

\* the SELECT of the pending recipients has answered
processBroadcast_recipients(q) ==
    /\ processor[q].pc = "pb_recipients"
    /\ SetProcessor(q, processBroadcast_loop(
           [processor[q] EXCEPT !.todo = PendingRecipients(broadcast_recipients,
                                                            processor[q].broadcastId),
                                !.sentCount = 0, !.failedCount = 0]))
    /\ UNCHANGED <<clockVars, rateVars, agentVars, taskVars, progVars, broadcasts,
                   broadcast_recipients, sendingQueue, isProcessing, pollers, cancels,
                   delivered, bcalls, nBroadcasts>>

\* checkGlobalRateLimit has answered: when denied delay(60000) starts
processBroadcast_global(q) ==
    /\ processor[q].pc = "pb_global"
    /\ LET me == processor[q]
           globalCheck == checkGlobalRateLimit(rate_limits, config, now)
       IN IF ~globalCheck.allowed
          THEN SetProcessor(q, [me EXCEPT !.pc = "pb_wait", !.wake = now + GlobalPauseMs])
          ELSE SetProcessor(q, [me EXCEPT !.pc = "pb_phone"])
    /\ UNCHANGED <<clockVars, rateVars, agentVars, taskVars, progVars, broadcasts,
                   broadcast_recipients, sendingQueue, isProcessing, pollers, cancels,
                   delivered, bcalls, nBroadcasts>>

\* delay(60000) is over (the clock has reached its end); `continue`
processBroadcast_wait(q) ==
    /\ processor[q].pc = "pb_wait"
    /\ now' = IF now < processor[q].wake THEN processor[q].wake ELSE now
    /\ SetProcessor(q, processBroadcast_next(processor[q]))
    /\ UNCHANGED <<nTicks, rateVars, agentVars, taskVars, progVars, broadcasts,
                   broadcast_recipients, sendingQueue, isProcessing, pollers, cancels,
                   delivered, bcalls, nBroadcasts>>

\* checkPhoneRateLimit has answered: when denied markRecipientFailed issues
\* its UPDATE, else smsService.sendMessage is called
processBroadcast_phone(q) ==
    /\ processor[q].pc = "pb_phone"
    /\ LET me == processor[q]
           recipient == broadcast_recipients[Head(me.todo)]
           phoneCheck == checkPhoneRateLimit_windows(rate_limits, config,
                                                     recipient.phone, now)
       IN IF ~phoneCheck.allowed THEN SetProcessor(q, [me EXCEPT !.pc = "pb_limited"])
          ELSE SetProcessor(q, [me EXCEPT !.pc = "pb_send"])
    /\ UNCHANGED <<clockVars, rateVars, agentVars, taskVars, progVars, broadcasts,
                   broadcast_recipients, sendingQueue, isProcessing, pollers, cancels,
                   delivered, bcalls, nBroadcasts>>

\* markRecipientFailed(recipient.id, 'Rate limit exceeded') is done;
\* failedCount++; continue
processBroadcast_limited(q) ==
    /\ processor[q].pc = "pb_limited"
    /\ LET me == processor[q]
       IN /\ broadcast_recipients' = markRecipientFailed(broadcast_recipients, Head(me.todo))
          /\ SetProcessor(q, processBroadcast_next(
                 [me EXCEPT !.failedCount = me.failedCount + 1]))
    /\ UNCHANGED <<clockVars, rateVars, agentVars, taskVars, progVars, broadcasts,
                   sendingQueue, isProcessing, pollers, cancels, delivered, bcalls,
                   nBroadcasts>>

\* smsService.sendMessage has returned or thrown.  The server's sendMessage
\* checks the phone's rate limit itself and throws when it is denied; it
\* stores the message, calls updateRateLimit and hands the message over.
processBroadcast_send(q) ==
    /\ processor[q].pc = "pb_send"
    /\ LET me == processor[q]
           recipient == broadcast_recipients[Head(me.todo)]
           rateLimitCheck == checkPhoneRateLimit_windows(rate_limits, config,
                                                         recipient.phone, now)
       IN \E ok \in BOOLEAN :
            IF ok /\ rateLimitCheck.allowed
            THEN /\ rate_limits' = updateRateLimit_windows(rate_limits, recipient.phone, now)
                 /\ delivered' = Append(delivered, [broadcast_id |-> me.broadcastId,
                                                    recipient |-> Head(me.todo)])
                 /\ SetProcessor(q, [me EXCEPT !.pc = "pb_update"])
            ELSE /\ SetProcessor(q, [me EXCEPT !.pc = "pb_catch"])
                 /\ UNCHANGED <<rate_limits, delivered>>
    /\ UNCHANGED <<clockVars, config, senders, nSends, agentVars, taskVars, progVars,
                   broadcasts, broadcast_recipients, sendingQueue, isProcessing, pollers,
                   cancels, bcalls, nBroadcasts>>

\* processBroadcast's own updateRateLimit(recipient.phone) is done
processBroadcast_update(q) ==
    /\ processor[q].pc = "pb_update"
    /\ LET me == processor[q]
           recipient == broadcast_recipients[Head(me.todo)]
       IN /\ rate_limits' = updateRateLimit_windows(rate_limits, recipient.phone, now)
          /\ SetProcessor(q, [me EXCEPT !.pc = "pb_sent"])
    /\ UNCHANGED <<clockVars, config, senders, nSends, agentVars, taskVars, progVars,
                   broadcasts, broadcast_recipients, sendingQueue, isProcessing, pollers,
                   cancels, delivered, bcalls, nBroadcasts>>

\* markRecipientSent is done; sentCount++; delay(200)
processBroadcast_sent(q) ==
    /\ processor[q].pc = "pb_sent"
    /\ LET me == processor[q]
       IN /\ broadcast_recipients' = markRecipientSent(broadcast_recipients, Head(me.todo))
          /\ SetProcessor(q, processBroadcast_next(
                 [me EXCEPT !.sentCount = me.sentCount + 1]))
    /\ UNCHANGED <<clockVars, rateVars, agentVars, taskVars, progVars, broadcasts,
                   sendingQueue, isProcessing, pollers, cancels, delivered, bcalls,
                   nBroadcasts>>

\* the catch of the loop body: markRecipientFailed(recipient.id,
\* error.message) is done; failedCount++
processBroadcast_catch(q) ==
    /\ processor[q].pc = "pb_catch"
    /\ LET me == processor[q]
       IN /\ broadcast_recipients' = markRecipientFailed(broadcast_recipients, Head(me.todo))
          /\ SetProcessor(q, processBroadcast_next(
                 [me EXCEPT !.failedCount = me.failedCount + 1]))
    /\ UNCHANGED <<clockVars, rateVars, agentVars, taskVars, progVars, broadcasts,
                   sendingQueue, isProcessing, pollers, cancels, delivered, bcalls,
                   nBroadcasts>>

\* updateBroadcastCounts is done
processBroadcast_counts(q) ==
    /\ processor[q].pc = "pb_counts"
    /\ LET me == processor[q]
       IN /\ broadcasts' = updateBroadcastCounts(broadcasts, me.broadcastId, me.sentCount,
                                                 me.failedCount)
          /\ SetProcessor(q, [me EXCEPT !.pc = "pb_status"])
    /\ UNCHANGED <<clockVars, rateVars, agentVars, taskVars, progVars,
                   broadcast_recipients, sendingQueue, isProcessing, pollers, cancels,
                   delivered, bcalls, nBroadcasts>>

\* UPDATE broadcasts SET status = 'sent' is done; processBroadcast returns
\* and processBroadcastQueue's delay(1000) starts
processBroadcast_status(q) ==
    /\ processor[q].pc = "pb_status"
    /\ broadcasts' = [broadcasts EXCEPT ![processor[q].broadcastId].status = "sent"]
    /\ SetProcessor(q, [processor[q] EXCEPT !.pc = "pq_delay"])
    /\ UNCHANGED <<clockVars, rateVars, agentVars, taskVars, progVars,
                   broadcast_recipients, sendingQueue, isProcessing, pollers, cancels,
                   delivered, bcalls, nBroadcasts>>

\* processBroadcastQueue: delay(1000) is over; the next id is taken from
\* the queue, or isProcessing is set to false
processBroadcastQueue(q) ==
    /\ processor[q].pc = "pq_delay"
    /\ IF sendingQueue # <<>>
       THEN /\ sendingQueue' = Tail(sendingQueue)
            /\ SetProcessor(q, [IdleProcessor EXCEPT !.pc = "pb_select",
                                                     !.broadcastId = Head(sendingQueue)])
            /\ UNCHANGED isProcessing
       ELSE /\ isProcessing' = FALSE
            /\ SetProcessor(q, IdleProcessor)
            /\ UNCHANGED sendingQueue
    /\ UNCHANGED <<clockVars, rateVars, agentVars, taskVars, progVars, broadcasts,
                   broadcast_recipients, pollers, cancels, delivered, bcalls,
                   nBroadcasts>>

\* the awaits of processBroadcast that stand outside the try of the loop
\* body, so that a store error of theirs reaches processBroadcast's catch:
\* the two SELECTs, markRecipientFailed in the catch of the loop body,
\* updateBroadcastCounts and the UPDATE of the status
OuterAwaits == {"pb_select", "pb_recipients", "pb_catch", "pb_counts", "pb_status"}

\* a statement of processBroadcast has failed with a store error:
\* processBroadcast's catch issues markBroadcastFailed's UPDATE
processBroadcast_error(q) ==
    /\ processor[q].pc \in OuterAwaits
    /\ SetProcessor(q, [processor[q] EXCEPT !.pc = "pb_failed"])
    /\ UNCHANGED <<clockVars, rateVars, agentVars, taskVars, progVars, broadcasts,
                   broadcast_recipients, sendingQueue, isProcessing, pollers, cancels,
                   delivered, bcalls, nBroadcasts>>

\* markBroadcastFailed: UPDATE broadcasts SET status = 'failed' is done
\* (processBroadcast returns and processBroadcastQueue's delay(1000)
\* starts), or has failed as well: the error leaves processBroadcast's catch
\* and processBroadcastQueue, whose loop stands in no try
markBroadcastFailed(q) ==
    /\ processor[q].pc = "pb_failed"
    /\ \E ok \in BOOLEAN :
         IF ok
         THEN /\ broadcasts' = [broadcasts EXCEPT ![processor[q].broadcastId].status =
                                    "failed"]
              /\ SetProcessor(q, [processor[q] EXCEPT !.pc = "pq_delay"])
         ELSE /\ SetProcessor(q, IdleProcessor)
              /\ UNCHANGED broadcasts
    /\ UNCHANGED <<clockVars, rateVars, agentVars, taskVars, progVars,
                   broadcast_recipients, sendingQueue, isProcessing, pollers, cancels,
                   delivered, bcalls, nBroadcasts>>

(***************************************************************************)
(* BroadcastSystem: processScheduledBroadcasts and cancelBroadcast         *)
(***************************************************************************)
\* Bound on the cancelBroadcast calls
MaxCancels == 1

\* SELECT id FROM broadcasts WHERE status = 'scheduled' AND scheduled_at <=
\* NOW(); the scheduled time of a scheduled broadcast is taken to have come
ScheduledBroadcasts(rows) ==
    Ascending({i \in 1..Len(rows) : rows[i].status = "scheduled" /\ rows[i].scheduled})

\* The 60 second interval has fired and processScheduledBroadcasts' SELECT
\* has answered with broadcasts: startBroadcast issues its UPDATE for the
\* first id (a poll that finds none changes nothing)
processScheduledBroadcasts(p) ==
    /\ pollers[p].pc = "idle"
    /\ \E scheduled \in RowOrders(ScheduledBroadcasts(broadcasts)) :
          /\ scheduled # <<>>
          /\ pollers' = [pollers EXCEPT ![p] = [pc |-> "ps_start", todo |-> scheduled]]
    /\ UNCHANGED <<clockVars, rateVars, agentVars, taskVars, progVars, broadcasts,
                   broadcast_recipients, sendingQueue, isProcessing, processor, cancels,
                   delivered, bcalls, nBroadcasts>>

\* startBroadcast(broadcast.id) has returned; the next id follows
processScheduledBroadcasts_start(p) ==
    /\ pollers[p].pc = "ps_start"
    /\ startBroadcast_queue(Head(pollers[p].todo))
    /\ pollers' = [pollers EXCEPT ![p] =
           IF Tail(pollers[p].todo) = <<>> THEN IdlePoller
           ELSE [pc |-> "ps_start", todo |-> Tail(pollers[p].todo)]]
    /\ UNCHANGED <<clockVars, rateVars, agentVars, taskVars, progVars,
                   broadcast_recipients, cancels, delivered, bcalls, nBroadcasts>>

\* this.sendingQueue.indexOf(broadcastId), from 1, 0 when absent.  The queue
\* holds numbers (result.insertId); the route DELETE /api/broadcasts/:id
\* passes req.params.id, a string, which is never strictly equal to one
indexOf(queue, broadcastId, isString) ==
    LET found == {i \in 1..Len(queue) : ~isString /\ queue[i] = broadcastId}
    IN IF found = {} THEN 0 ELSE MinOf(found)

\* this.sendingQueue.splice(queueIndex, 1)
splice(queue, queueIndex) ==
    SubSeq(queue, 1, queueIndex - 1) \o SubSeq(queue, queueIndex + 1, Len(queue))

\* processing of the broadcast has not started: it is scheduled, or waits
\* in the send queue
NotStarted(broadcastId) ==
    \/ broadcasts[broadcastId].status = "scheduled"
    \/ \E i \in 1..Len(sendingQueue) : sendingQueue[i] = broadcastId

\* processBroadcast has been entered for the broadcast
Started(broadcastId) ==
    \/ broadcasts[broadcastId].status \in {"sent", "failed"}
    \/ \E q \in ProcIds : /\ processor[q].pc # "idle"
                          /\ processor[q].broadcastId = broadcastId

\* cancelBroadcast(broadcastId): the id is taken out of the queue and the
\* UPDATE is issued
cancelBroadcast(broadcastId, isString) ==
    /\ Len(cancels) < MaxCancels
    /\ broadcastId \in 1..Len(broadcasts)
    /\ LET queueIndex == indexOf(sendingQueue, broadcastId, isString)
       IN sendingQueue' = IF queueIndex > 0 THEN splice(sendingQueue, queueIndex)
                          ELSE sendingQueue
    /\ cancels' = Append(cancels, [broadcastId |-> broadcastId, pc |-> "cx_update",
                                   notStarted |-> NotStarted(broadcastId),
                                   delivered |-> Len(delivered)])
    /\ UNCHANGED <<clockVars, rateVars, agentVars, taskVars, progVars, broadcasts,
                   broadcast_recipients, isProcessing, processor, pollers, delivered,
                   bcalls, nBroadcasts>>

\* UPDATE broadcasts SET status = 'cancelled' WHERE id = ? AND status IN
\* ('scheduled', 'sending') is done
cancelBroadcast_update(k) ==
    /\ k \in 1..Len(cancels)
    /\ cancels[k].pc = "cx_update"
    /\ broadcasts' = [broadcasts EXCEPT ![cancels[k].broadcastId].status =
                         IF @ \in {"scheduled", "sending"} THEN "cancelled" ELSE @]
    /\ cancels' = [cancels EXCEPT ![k] =
           [@ EXCEPT !.pc = "returned",
                     !.notStarted = @ /\ ~Started(cancels[k].broadcastId),
                     !.delivered = Len(delivered)]]
    /\ UNCHANGED <<clockVars, rateVars, agentVars, taskVars, progVars,
                   broadcast_recipients, sendingQueue, isProcessing, processor, pollers,
                   delivered, bcalls, nBroadcasts>>

InitBroadcast ==
    /\ broadcasts = <<>>
    /\ broadcast_recipients = <<>>
    /\ sendingQueue = <<>>
    /\ isProcessing = FALSE
    /\ processor = [q \in ProcIds |-> IdleProcessor]
    /\ pollers = [p \in PollIds |-> IdlePoller]
    /\ cancels = <<>>
    /\ delivered = <<>>
    /\ bcalls = [b \in BcIds |-> IdleCall]
    /\ nBroadcasts = 0

\* the targets of the modelled createBroadcast calls: overlapping groups
\* and contacts, an inactive contact alone, no target, and the bulk group
BroadcastTargets ==
    {[groups |-> {1, 2}, contacts |-> {2, 3}],
     [groups |-> {1}, contacts |-> {}],
     [groups |-> {}, contacts |-> {3}],
     [groups |-> {}, contacts |-> {}],
     [groups |-> {3}, contacts |-> {}]}

NextBroadcast ==
    \/ \E b \in BcIds, target \in BroadcastTargets, scheduled \in BOOLEAN :
          createBroadcast(b, target.groups, target.contacts, scheduled)
    \/ \E b \in BcIds : calculateRecipients_groups(b)
    \/ \E b \in BcIds : calculateRecipients_contacts(b)
    \/ \E b \in BcIds : createBroadcast_insert(b)
    \/ \E b \in BcIds : createBroadcast_recipient(b)
    \/ \E b \in BcIds : startBroadcast(b)

(***************************************************************************)
(* Initial states                                                          *)
(***************************************************************************)
InitAgent ==
    /\ server \in ServerVariants
    /\ agents = [a \in AgentIds |->
                    [phone |-> AgentPhone(a), is_active |-> TRUE, is_available |-> TRUE,
                     max_concurrent_chats |-> AgentMaxChats,
                     trigger_words |-> <<STR_help, STR_agent, STR_support, STR_shaliach>>]]
    /\ chat_sessions = <<>>
    /\ activeSessions = <<>>
    /\ pendingConnections = <<>>
    /\ sessionTimeouts = <<>>
    /\ connTimers = {}
    /\ messages = {}
    /\ cleanupDue = now + CleanupIntervalMs

InitTasks ==
    /\ tasks = [h \in TaskIds |-> IdleTask]
    /\ nTasks = 0

Init == InitClock /\ InitRate /\ InitAgent /\ InitTasks /\ InitProgram /\ InitBroadcast

(***************************************************************************)
(* The specifications                                                      *)
(***************************************************************************)
AgentPhones == {AgentPhone(a) : a \in AgentIds}

\* RateLimitManager under interleaved sends
SpecRate == Init /\ [][NextRate]_vars

\* AgentSystem: connection requests and the agents' commands
NextAgent ==
    \/ \E h \in TaskIds, p \in UserPhones : requestAgentConnection(h, p)
    \/ \E h \in TaskIds : requestAgentConnection_agents(h)
    \/ \E h \in TaskIds : requestAgentConnection_notify(h)
    \/ \E h \in TaskIds : requestAgentConnection_user(h)
    \/ \E h \in TaskIds : requestAgentConnection_reply(h)
    \/ \E h \in TaskIds, from \in AgentPhones, text \in {TEXT_accept, STR_END} :
           processIncomingMessage(h, from, text)
    \/ \E h \in TaskIds : routeMessage(h)
    \/ \E h \in TaskIds : handleAcceptCommand_findAgent(h)
    \/ \E h \in TaskIds : handleAcceptCommand_checkCapacity(h)
    \/ \E h \in TaskIds : handleAcceptCommand_createSession(h)
    \/ \E h \in TaskIds : handleAcceptCommand_notify(h)
    \/ \E h \in TaskIds : handleAcceptCommand_reply(h)
    \/ \E h \in TaskIds : handleAcceptCommand_error(h)
    \/ \E h \in TaskIds : handleEndCommand_reply(h)
    \/ \E h \in TaskIds : endChatSession_update(h)
    \/ \E h \in TaskIds : endChatSession_notifyUser(h)
    \/ \E h \in TaskIds : endChatSession_notifyAgent(h)

SpecAgent == Init /\ [][NextAgent]_vars

\* processIncomingMessage: one user, one agent, every handler of the chain
NextRoute ==
    \/ \E h \in TaskIds : requestAgentConnection(h, "u1")
    \/ \E h \in TaskIds : requestAgentConnection_agents(h)
    \/ \E h \in TaskIds : requestAgentConnection_notify(h)
    \/ \E h \in TaskIds : requestAgentConnection_user(h)
    \/ \E h \in TaskIds : requestAgentConnection_reply(h)
    \/ \E h \in TaskIds, from \in {"u1", "a1"}, text \in {TEXT_accept, STR_END, TEXT_hi} :
           processIncomingMessage(h, from, text)
    \/ \E h \in TaskIds : routeMessage(h)
    \/ \E h \in TaskIds : handleAcceptCommand_findAgent(h)
    \/ \E h \in TaskIds : handleAcceptCommand_checkCapacity(h)
    \/ \E h \in TaskIds : handleAcceptCommand_createSession(h)
    \/ \E h \in TaskIds : handleAcceptCommand_notify(h)
    \/ \E h \in TaskIds : handleAcceptCommand_reply(h)
    \/ \E h \in TaskIds : handleAcceptCommand_error(h)
    \/ \E h \in TaskIds : handleEndCommand_reply(h)
    \/ \E h \in TaskIds : endChatSession_update(h)
    \/ \E h \in TaskIds : endChatSession_notifyUser(h)
    \/ \E h \in TaskIds : endChatSession_notifyAgent(h)
    \/ \E h \in TaskIds : forwardAgentMessage_send(h)
    \/ \E h \in TaskIds : forwardAgentMessage_log(h)
    \/ \E h \in TaskIds : forwardUserMessage_send(h)
    \/ \E h \in TaskIds : forwardUserMessage_log(h)
    \/ \E h \in TaskIds : processMessage(h)
    \/ \E h \in TaskIds : getProgramState(h)
    \/ \E h \in TaskIds : createProgramState(h)
    \/ \E h \in TaskIds : executeMessageStep(h)
    \/ \E h \in TaskIds : jumpToStep(h)
    \/ \E h \in TaskIds : processContactPrograms(h)

SpecRoute == Init /\ [][NextRoute]_vars

\* ProgramEngine: message arrivals, scheduler ticks and assignProgram calls
NextProgram ==
    \/ \E h \in TaskIds, from \in UserPhones, text \in {TEXT_hi, TEXT_help, STR_shaliach} :
           processIncomingMessage(h, from, text)
    \/ \E h \in TaskIds : routeMessage(h)
    \/ \E h \in TaskIds : processMessage(h)
    \/ \E h \in TaskIds : getProgramState(h)
    \/ \E h \in TaskIds : createProgramState(h)
    \/ \E h \in TaskIds : executeMessageStep(h)
    \/ \E h \in TaskIds : jumpToStep(h)
    \/ \E h \in TaskIds : ProgramEngine_requestAgentConnection(h)
    \/ \E h \in TaskIds : ProgramEngine_requestAgentConnection_send(h)
    \/ \E h \in TaskIds : executeAgentConnectStep(h)
    \/ \E h \in TaskIds : processContactPrograms(h)
    \/ \E h \in TaskIds : checkAgentTriggers(h)
    \/ \E h \in TaskIds : executeScheduledPrograms(h)
    \/ \E h \in TaskIds : executeScheduledPrograms_select(h)
    \/ \E h \in TaskIds, p \in ProgramIds, c \in {ContactOf(u) : u \in UserPhones} :
           assignProgram(h, p, <<c>>, <<>>)
    \/ \E h \in TaskIds : assignProgram_assigned(h)

SpecProgram == Init /\ [][NextProgram]_vars

\* executeStep on one step, one user message and one program state
TEXT_empty == <<>>
TEXT_blank == <<" ">>
TEXT_42 == <<"4", "2">>
TEXT_4_5 == <<" ", "4", ".", "5">>
TEXT_abc == <<"a", "b", "c">>
TEXT_Help_agent == <<"H", "e", "l", "p", " ", "a", "g", "e", "n", "t">>
TEXT_agent == <<"a", "g", "e", "n", "t">>
TEXT_mail == <<"a", "@", "b", ".", "c">>
TEXT_phone == <<"+", "1", " ", "(", "5", ")">>

MessageInputs ==
    {TEXT_empty, TEXT_blank, TEXT_42, TEXT_4_5, TEXT_abc, TEXT_hi, TEXT_help,
     TEXT_Help_agent, TEXT_agent, TEXT_mail, TEXT_phone}

ConditionListInputs ==
    {<<>>,
     <<Condition("contains", STR_help, 1), Condition("contains", STR_agent, 2)>>,
     <<Condition("contains", STR_agent, 2), Condition("contains", STR_help, 1)>>,
     <<Condition("starts_with", <<"H", "E">>, 0), Condition("equals", STR_agent, 2)>>,
     <<NumberRange(100, 500, 2), Condition("regex", <<"b">>, 3)>>}

ValidatorListInputs ==
    {<<>>,
     <<Validator("numeric", 0)>>,
     <<Validator("required", 0)>>,
     <<Validator("min_length", 2), Validator("max_length", 3)>>,
     <<Validator("email", 0)>>,
     <<Validator("phone", 0)>>}

StepInputs ==
    {[NoStep EXCEPT !.type = "condition", !.id = 1, !.conditions = cs,
                    !.default_next_step_id = d] :
        cs \in ConditionListInputs, d \in {Null, Some(0), Some(2)}}
    \cup
    {[NoStep EXCEPT !.type = "input", !.id = 1, !.validators = vs,
                    !.error_message = e, !.variable_name = v] :
        vs \in ValidatorListInputs, e \in {"", "Invalid input"}, v \in {"", "age"}}
    \cup
    {[NoStep EXCEPT !.type = "message", !.id = 1, !.content = "Hello"],
     [NoStep EXCEPT !.type = "delay", !.id = 1, !.delay = 300]}

StepDataInputs == {EmptyObject, SetKey(EmptyObject, "age", JsonString(<<"7">>))}

InitStep ==
    /\ InitClock /\ InitRate /\ InitAgent /\ InitBroadcast
    /\ outbound = <<>>
    /\ programs = Programs
    /\ nTasks = 1
    /\ \E step \in StepInputs, userMessage \in MessageInputs, data \in StepDataInputs :
         LET row == [NewStateRow(1, ContactOf("u1")) EXCEPT !.current_step = 1,
                                                            !.step_data = data]
         IN /\ program_states = <<row>>
            /\ tasks = [h \in TaskIds |->
                  IF h = 1
                  THEN [IdleTask EXCEPT !.kind = "call", !.pc = "exec_step", !.seq = 1,
                                        !.from = "u1", !.text = userMessage, !.prog = 1,
                                        !.step = step, !.ps = StateObject(1, row),
                                        !.ret = "call"]
                  ELSE IdleTask]

NextStep ==
    \/ \E h \in TaskIds : executeStep(h)
    \/ \E h \in TaskIds : executeMessageStep(h)
    \/ \E h \in TaskIds : executeDelayStep(h)
    \/ \E h \in TaskIds : executeInputStep(h)
    \/ \E h \in TaskIds : jumpToStep(h)

SpecStep == InitStep /\ [][NextStep]_vars

\* program_data an administrator puts: a reminder after a delay, and the
\* reminder alone
delayedReminderData ==
    <<[NoStep EXCEPT !.id = 0, !.type = "delay", !.delay = 300,
                     !.next_step_id = Some(1)],
      [NoStep EXCEPT !.id = 1, !.type = "message", !.content = "Reminder"]>>

reminderData ==
    <<[NoStep EXCEPT !.id = 0, !.type = "message", !.content = "Reminder"]>>

\* the welcome program of scripts/migrate.js (seedPrograms): its step ids
\* start at 1
migrateWelcomeData ==
    <<[NoStep EXCEPT !.id = 1, !.type = "message", !.content = "Welcome to the yeshiva",
                     !.next_step_id = Some(2)],
      [NoStep EXCEPT !.id = 2, !.type = "delay", !.delay = 5,
                     !.next_step_id = Some(3)],
      [NoStep EXCEPT !.id = 3, !.type = "message", !.content = "For help send shaliach"]>>

ProgramDataInputs == {delayedReminderData, reminderData, migrateWelcomeData}

\* ProgramEngine's scheduler: message arrivals of one user, edits of the
\* base program, the clock and the ticks of the 10 second interval, which
\* may overlap
NextSchedule ==
    \/ \E h \in TaskIds : processIncomingMessage(h, "u1", TEXT_hi)
    \/ \E h \in TaskIds : routeMessage(h)
    \/ \E h \in TaskIds : processMessage(h)
    \/ \E h \in TaskIds : getProgramState(h)
    \/ \E h \in TaskIds : createProgramState(h)
    \/ \E h \in TaskIds : executeMessageStep(h)
    \/ \E h \in TaskIds : jumpToStep(h)
    \/ \E h \in TaskIds : executeDelayStep(h)
    \/ \E h \in TaskIds : processContactPrograms(h)
    \/ \E h \in TaskIds : executeScheduledPrograms(h)
    \/ \E h \in TaskIds : executeScheduledPrograms_select(h)
    \/ \E data \in ProgramDataInputs : updateProgram(1, data, TRUE)
    \/ Tick("hour")

SpecSchedule == Init /\ [][NextSchedule]_vars

\* AgentSystem with its timers: one user and two agents, of which the first
\* accepts and goes offline, the request and session timeouts and the clock
NextChat ==
    \/ \E h \in TaskIds : requestAgentConnection(h, "u1")
    \/ \E h \in TaskIds : requestAgentConnection_agents(h)
    \/ \E h \in TaskIds : requestAgentConnection_notify(h)
    \/ \E h \in TaskIds : requestAgentConnection_user(h)
    \/ \E h \in TaskIds : requestAgentConnection_reply(h)
    \/ \E h \in TaskIds : processIncomingMessage(h, "a1", TEXT_accept)
    \/ \E h \in TaskIds : routeMessage(h)
    \/ \E h \in TaskIds : handleAcceptCommand_findAgent(h)
    \/ \E h \in TaskIds : handleAcceptCommand_checkCapacity(h)
    \/ \E h \in TaskIds : handleAcceptCommand_createSession(h)
    \/ \E h \in TaskIds : handleAcceptCommand_notify(h)
    \/ \E h \in TaskIds : handleAcceptCommand_reply(h)
    \/ \E h \in TaskIds : handleAcceptCommand_error(h)
    \/ \E h \in TaskIds : endChatSession_update(h)
    \/ \E h \in TaskIds : endChatSession_notifyUser(h)
    \/ \E h \in TaskIds : endChatSession_notifyAgent(h)
    \/ \E h \in TaskIds : updateAgentAvailability(h, 1, FALSE)
    \/ \E h \in TaskIds : updateAgentAvailability_update(h)
    \/ \E h \in TaskIds : updateAgentAvailability_select(h)
    \/ \E h \in TaskIds, k \in DOMAIN sessionTimeouts : sessionTimeout(h, k)
    \/ \E timer \in connTimers : handleConnectionTimeout(timer)
    \/ \E t \in DueTimes : Elapse(t)

InitChat ==
    /\ InitClock /\ InitRate /\ InitAgent /\ InitTasks /\ InitProgram /\ InitBroadcast
    /\ server = "railway"

SpecChat == InitChat /\ [][NextChat]_vars

\* A chat session with its messages, the session and request timeouts, the
\* hourly sweep and the clock: u1 asks for an agent, a1 accepts, both write
NextIdle ==
    \/ \E h \in TaskIds : requestAgentConnection(h, "u1")
    \/ \E h \in TaskIds : requestAgentConnection_agents(h)
    \/ \E h \in TaskIds : requestAgentConnection_notify(h)
    \/ \E h \in TaskIds : requestAgentConnection_user(h)
    \/ \E h \in TaskIds : requestAgentConnection_reply(h)
    \/ \E h \in TaskIds : processIncomingMessage(h, "a1", TEXT_accept)
    \/ \E h \in TaskIds, from \in {"u1", "a1"} : processIncomingMessage(h, from, TEXT_hi)
    \/ \E h \in TaskIds : routeMessage(h)
    \/ \E h \in TaskIds : handleAcceptCommand_findAgent(h)
    \/ \E h \in TaskIds : handleAcceptCommand_checkCapacity(h)
    \/ \E h \in TaskIds : handleAcceptCommand_createSession(h)
    \/ \E h \in TaskIds : handleAcceptCommand_notify(h)
    \/ \E h \in TaskIds : handleAcceptCommand_reply(h)
    \/ \E h \in TaskIds : handleAcceptCommand_error(h)
    \/ \E h \in TaskIds : endChatSession_update(h)
    \/ \E h \in TaskIds : endChatSession_notifyUser(h)
    \/ \E h \in TaskIds : endChatSession_notifyAgent(h)
    \/ \E h \in TaskIds : forwardAgentMessage_send(h)
    \/ \E h \in TaskIds : forwardAgentMessage_log(h)
    \/ \E h \in TaskIds : forwardUserMessage_send(h)
    \/ \E h \in TaskIds : forwardUserMessage_log(h)
    \/ \E h \in TaskIds : processMessage(h)
    \/ \E h \in TaskIds : getProgramState(h)
    \/ \E h \in TaskIds : createProgramState(h)
    \/ \E h \in TaskIds : executeMessageStep(h)
    \/ \E h \in TaskIds : jumpToStep(h)
    \/ \E h \in TaskIds : processContactPrograms(h)
    \/ \E h \in TaskIds, k \in DOMAIN sessionTimeouts : sessionTimeout(h, k)
    \/ \E timer \in connTimers : handleConnectionTimeout(timer)
    \/ \E h \in TaskIds : cleanupOldSessions(h)
    \/ \E h \in TaskIds : cleanupOldSessions_select(h)
    \/ \E t \in DueTimes : Elapse(t)

SpecIdle == InitChat /\ [][NextIdle]_vars

\* The ways a chat session ends, for a contact whose program is paused: u1's
\* program state waits for an agent (u1 wrote the trigger of the
\* agent_connect step), u1 has asked for an agent and a1 has accepted at
\* time 0; the session is ended by END, by the admin route, by its timeout
\* or by a1 going offline
InitResume ==
    /\ InitClock /\ InitRate /\ InitTasks /\ InitBroadcast
    /\ server = "railway"
    /\ agents = [a \in AgentIds |->
                    [phone |-> AgentPhone(a), is_active |-> TRUE, is_available |-> TRUE,
                     max_concurrent_chats |-> AgentMaxChats,
                     trigger_words |-> <<STR_help, STR_agent, STR_support, STR_shaliach>>]]
    /\ chat_sessions = <<[contact_id |-> 1, agent_id |-> 1, status |-> "active",
                          session_key |-> 1, started_at |-> now, ended_at |-> -1]>>
    /\ activeSessions = <<[userPhone |-> "u1", contactId |-> 1, sessionKey |-> 1,
                           sessionId |-> 1, agentId |-> 1, agentPhone |-> "a1"]>>
    /\ pendingConnections = <<>>
    /\ sessionTimeouts = startSessionTimeout(<<>>, 1)
    /\ connTimers = {[userPhone |-> "u1", due |-> now + ConnectionTimeoutMs]}
    /\ messages = {}
    /\ cleanupDue = now + CleanupIntervalMs
    /\ programs = Programs
    /\ outbound = <<>>
    /\ program_states =
           <<[NewStateRow(1, 1) EXCEPT
                 !.current_step = 2,
                 !.is_paused = TRUE,
                 !.step_data = SetKey(EmptyObject, "waiting_for_agent", JSON_true)]>>

NextResume ==
    \/ \E h \in TaskIds : processIncomingMessage(h, "a1", STR_END)
    \/ \E h \in TaskIds : routeMessage(h)
    \/ \E h \in TaskIds : handleEndCommand_reply(h)
    \/ \E h \in TaskIds, k \in ActiveKeys : endChat(h, k)
    \/ \E h \in TaskIds : endChatSession_update(h)
    \/ \E h \in TaskIds : endChatSession_notifyUser(h)
    \/ \E h \in TaskIds : endChatSession_notifyAgent(h)
    \/ \E h \in TaskIds : updateAgentAvailability(h, 1, FALSE)
    \/ \E h \in TaskIds : updateAgentAvailability_update(h)
    \/ \E h \in TaskIds : updateAgentAvailability_select(h)
    \/ \E h \in TaskIds, k \in DOMAIN sessionTimeouts : sessionTimeout(h, k)
    \/ \E timer \in connTimers : handleConnectionTimeout(timer)
    \/ \E t \in DueTimes : Elapse(t)

SpecResume == InitResume /\ [][NextResume]_vars

\* the targets of the broadcasts that are sent: group 1 (contacts 1 and 2)
\* and contact 2
SendTargets ==
    {[groups |-> {1}, contacts |-> {}],
     [groups |-> {}, contacts |-> {2}]}

\* BroadcastSystem: createBroadcast calls one after the other, the send
\* queue, the poll of the scheduled broadcasts (each poll has returned when
\* the next one starts) and cancelBroadcast calls
NextSend ==
    \/ \E target \in SendTargets, scheduled \in BOOLEAN :
          createBroadcast(1, target.groups, target.contacts, scheduled)
    \/ \E b \in BcIds : calculateRecipients_groups(b)
    \/ \E b \in BcIds : calculateRecipients_contacts(b)
    \/ \E b \in BcIds : createBroadcast_insert(b)
    \/ \E b \in BcIds : createBroadcast_recipient(b)
    \/ \E b \in BcIds : startBroadcast(b)
    \/ \E q \in ProcIds : processBroadcast(q)
    \/ \E q \in ProcIds : processBroadcast_recipients(q)
    \/ \E q \in ProcIds : processBroadcast_global(q)
    \/ \E q \in ProcIds : processBroadcast_wait(q)
    \/ \E q \in ProcIds : processBroadcast_phone(q)
    \/ \E q \in ProcIds : processBroadcast_limited(q)
    \/ \E q \in ProcIds : processBroadcast_send(q)
    \/ \E q \in ProcIds : processBroadcast_update(q)
    \/ \E q \in ProcIds : processBroadcast_sent(q)
    \/ \E q \in ProcIds : processBroadcast_catch(q)
    \/ \E q \in ProcIds : processBroadcast_counts(q)
    \/ \E q \in ProcIds : processBroadcast_status(q)
    \/ \E q \in ProcIds : processBroadcastQueue(q)
    \/ processScheduledBroadcasts(1)
    \/ processScheduledBroadcasts_start(1)
    \/ \E id \in BcIds, isString \in BOOLEAN : cancelBroadcast(id, isString)
    \/ \E k \in 1..MaxCancels : cancelBroadcast_update(k)

\* Global limits of the configuration under which broadcasts are sent
SendGlobalPerMinute == 3
SendGlobalPerHour == 5
SendGlobalPerDay == 7

SendConfig ==
    [LoadedConfig EXCEPT !.globalPerMinute = SendGlobalPerMinute,
                         !.globalPerHour = SendGlobalPerHour,
                         !.globalPerDay = SendGlobalPerDay]

\* the server that constructs the BroadcastSystem, with SendConfig loaded
InitSend ==
    /\ InitClock /\ InitAgent /\ InitTasks /\ InitProgram /\ InitBroadcast
    /\ server = "complete"
    /\ rate_limits = {}
    /\ config = SendConfig
    /\ senders = [s \in SenderIds |-> IdleSender]
    /\ nSends = 0

SpecSend == InitSend /\ [][NextSend]_vars

\* BroadcastSystem: broadcasts are created and sent while the 60 second
\* interval of startBroadcastProcessor fires; a poll may still await its
\* UPDATE when the interval fires again
NextPoll ==
    \/ \E target \in SendTargets, scheduled \in BOOLEAN :
          createBroadcast(1, target.groups, target.contacts, scheduled)
    \/ \E b \in BcIds : calculateRecipients_groups(b)
    \/ \E b \in BcIds : calculateRecipients_contacts(b)
    \/ \E b \in BcIds : createBroadcast_insert(b)
    \/ \E b \in BcIds : createBroadcast_recipient(b)
    \/ \E b \in BcIds : startBroadcast(b)
    \/ \E q \in ProcIds : processBroadcast(q)
    \/ \E q \in ProcIds : processBroadcast_recipients(q)
    \/ \E q \in ProcIds : processBroadcast_global(q)
    \/ \E q \in ProcIds : processBroadcast_wait(q)
    \/ \E q \in ProcIds : processBroadcast_phone(q)
    \/ \E q \in ProcIds : processBroadcast_limited(q)
    \/ \E q \in ProcIds : processBroadcast_send(q)
    \/ \E q \in ProcIds : processBroadcast_update(q)
    \/ \E q \in ProcIds : processBroadcast_sent(q)
    \/ \E q \in ProcIds : processBroadcast_catch(q)
    \/ \E q \in ProcIds : processBroadcast_counts(q)
    \/ \E q \in ProcIds : processBroadcast_status(q)
    \/ \E q \in ProcIds : processBroadcastQueue(q)
    \/ \E p \in PollIds : processScheduledBroadcasts(p)
    \/ \E p \in PollIds : processScheduledBroadcasts_start(p)

SpecPoll == InitSend /\ [][NextPoll]_vars

\* BroadcastSystem: broadcasts are created and sent at once; a statement of
\* processBroadcast may fail with a store error
NextStore ==
    \/ \E target \in SendTargets :
          createBroadcast(1, target.groups, target.contacts, FALSE)
    \/ \E b \in BcIds : calculateRecipients_groups(b)
    \/ \E b \in BcIds : calculateRecipients_contacts(b)
    \/ \E b \in BcIds : createBroadcast_insert(b)
    \/ \E b \in BcIds : createBroadcast_recipient(b)
    \/ \E b \in BcIds : startBroadcast(b)
    \/ \E q \in ProcIds : processBroadcast(q)
    \/ \E q \in ProcIds : processBroadcast_recipients(q)
    \/ \E q \in ProcIds : processBroadcast_global(q)
    \/ \E q \in ProcIds : processBroadcast_wait(q)
    \/ \E q \in ProcIds : processBroadcast_phone(q)
    \/ \E q \in ProcIds : processBroadcast_limited(q)
    \/ \E q \in ProcIds : processBroadcast_send(q)
    \/ \E q \in ProcIds : processBroadcast_update(q)
    \/ \E q \in ProcIds : processBroadcast_sent(q)
    \/ \E q \in ProcIds : processBroadcast_catch(q)
    \/ \E q \in ProcIds : processBroadcast_counts(q)
    \/ \E q \in ProcIds : processBroadcast_status(q)
    \/ \E q \in ProcIds : processBroadcastQueue(q)
    \/ \E q \in ProcIds : processBroadcast_error(q)
    \/ \E q \in ProcIds : markBroadcastFailed(q)

SpecStore == InitSend /\ [][NextStore]_vars

\* the arguments of the modelled assignProgram calls: contact 1 and the
\* group 1 = {1, 2}
AssignContactIds == {<<>>, <<1>>}
AssignGroupIds == {<<>>, <<1>>}

\* ProgramEngine.assignProgram, called through POST /api/programs/:id/assign
NextAssign ==
    \/ \E h \in TaskIds, p \in ProgramIds, contactIds \in AssignContactIds,
          groupIds \in AssignGroupIds :
           assignProgram(h, p, contactIds, groupIds)
    \/ \E h \in TaskIds : assignProgram_assigned(h)
    \/ \E h \in TaskIds : assignProgram_group(h)
    \/ \E h \in TaskIds : assignProgram_members(h)
    \/ \E h \in TaskIds : createProgramState(h)

SpecAssign == Init /\ [][NextAssign]_vars

\* BroadcastSystem.createBroadcast
SpecBroadcast == Init /\ [][NextBroadcast]_vars

(***************************************************************************)
(* C1: for every phone and every window, the counter recorded in any       *)
(* single aligned window never exceeds the configured per-phone limit of   *)
(* that window, under any interleaving of sends.                           *)
(***************************************************************************)
C1_WindowCountWithinLimit ==
    \A r \in rate_limits : r.message_count <= PhoneLimit(config, r.time_window)

(***************************************************************************)
(* C2: the ACCEPT handlers of two different agents that interleave never   *)
(* both create a chat session for one and the same pending request.        *)
(***************************************************************************)
HasCreatedSession(h) == tasks[h].pc \in {"acc_notify_agent", "acc_notify_user"}

C2_OneSessionPerRequest ==
    \A h1, h2 \in TaskIds :
        (/\ HasCreatedSession(h1) /\ HasCreatedSession(h2)
         /\ tasks[h1].agent # tasks[h2].agent)
            => ~(/\ tasks[h1].req.userPhone = tasks[h2].req.userPhone
                 /\ tasks[h1].req.requestTime = tasks[h2].req.requestTime)

(***************************************************************************)
(* C3: in every reachable state every agent has at most                    *)
(* max_concurrent_chats chat sessions with status active.                  *)
(***************************************************************************)
C3_ActiveChatsWithinCapacity ==
    \A a \in AgentIds : ActiveChats(a) <= agents[a].max_concurrent_chats

(***************************************************************************)
(* C4: processIncomingMessage offers every inbound message to              *)
(* forwardUserMessage before it offers it to processAgentMessage.          *)
(***************************************************************************)
C4_ForwardTriedBeforeAgentCommand ==
    \A h \in TaskIds : tasks[h].triedAgent => tasks[h].triedForward

(***************************************************************************)
(* C5: a message that processAgentMessage or forwardUserMessage claimed    *)
(* never reaches ProgramEngine.processMessage; the pieces that touch       *)
(* program_states run only for a message that both handlers were offered   *)
(* and both declined.                                                      *)
(***************************************************************************)
ProgramPcs ==
    {"pm_base", "ep_get", "ep_create", "st_send", "st_goto", "st_delay", "st_input",
     "pra_select", "pra_send", "st_pause", "pcp_select", "cat_select"}

C6_OneStatePerProgramAndContact ==
    \A i, j \in 1..Len(program_states) :
        (/\ program_states[i].program_id = program_states[j].program_id
         /\ program_states[i].contact_id = program_states[j].contact_id) => i = j

\* a second arrival lost the race: its INSERT is about to hit the existing row
C6_Witness ==
    \E h \in TaskIds :
        /\ tasks[h].kind = "msg"
        /\ tasks[h].pc = "ep_create"
        /\ DuplicateKey(program_states, tasks[h].prog, ContactOf(tasks[h].from))

(***************************************************************************)
(* C7: the recipients createBroadcast computes hold every phone at most    *)
(* once, and hold exactly the phones of the active contacts in the union   *)
(* of the target groups and the target contacts.                           *)
(***************************************************************************)
HasRecipients(b) ==
    bcalls[b].pc \in {"cb_insert", "cb_recipient", "sb_update", "returned", "failed"}

RecipientPhones(b) == {bcalls[b].recipients[i].phone : i \in 1..Len(bcalls[b].recipients)}

TargetedContacts(b) ==
    UNION {GroupMembers(g) : g \in bcalls[b].targetGroups}
        \cup (bcalls[b].targetContacts \cap BcContacts)

C7_RecipientsAreTheActiveTargets ==
    \A b \in BcIds :
        HasRecipients(b) =>
            /\ Cardinality(RecipientPhones(b)) = Len(bcalls[b].recipients)
            /\ RecipientPhones(b) = {BcPhone(c) : c \in ActiveIn(TargetedContacts(b))}

\* contact 2 is in both target groups and is listed directly
C7_Witness ==
    \E b \in BcIds : /\ bcalls[b].pc = "cb_insert"
                     /\ bcalls[b].targetGroups = {1, 2}
                     /\ bcalls[b].targetContacts = {2, 3}

(***************************************************************************)
(* C8: a createBroadcast call whose recipient count is 0 or above 1000     *)
(* fails: it never gets past the length checks, and the step in which it   *)
(* fails writes no broadcast, no recipient row and queues nothing.         *)
(***************************************************************************)
PastTheChecks(b) == bcalls[b].pc \in {"cb_insert", "cb_recipient", "sb_update", "returned"}

C8_RejectedBroadcastWritesNothing ==
    /\ [](\A b \in BcIds :
            PastTheChecks(b) => /\ Len(bcalls[b].recipients) >= 1
                                /\ Len(bcalls[b].recipients) <= MaxBroadcastRecipients)
    /\ [][\A b \in BcIds :
            (bcalls[b].pc # "failed" /\ bcalls'[b].pc = "failed")
                => UNCHANGED <<broadcasts, broadcast_recipients, sendingQueue,
                               isProcessing, processor, delivered>>]_vars

\* one call failed with no recipient, another with more than 1000
C8_Witness ==
    \E b1, b2 \in BcIds :
        /\ bcalls[b1].pc = "failed" /\ Len(bcalls[b1].recipients) = 0
        /\ bcalls[b2].pc = "failed"
        /\ Len(bcalls[b2].recipients) > MaxBroadcastRecipients

(***************************************************************************)
(* C9: a condition step moves the state to the next_step_id of the first   *)
(* condition, in list order, that matches the user message; when none      *)
(* matches and the step has a default_next_step_id, to that step.          *)
(***************************************************************************)
Matches(step, userMessage, i) == evaluateCondition(step.conditions[i], userMessage)

C9_ConditionStepTransition ==
    \A h \in TaskIds :
        LET t == tasks[h]
            row == program_states[t.ps.id]
            n == Len(t.step.conditions)
        IN (t.kind = "call" /\ t.pc = "returned" /\ t.step.type = "condition") =>
              /\ \A i \in 1..n :
                    (Matches(t.step, t.text, i)
                        /\ \A j \in 1..(i - 1) : ~Matches(t.step, t.text, j))
                    => row.current_step = t.step.conditions[i].next_step_id
              /\ ((\A i \in 1..n : ~Matches(t.step, t.text, i))
                    /\ t.step.default_next_step_id # Null)
                    => row.current_step = t.step.default_next_step_id[1]

(***************************************************************************)
(* C10: an input step given a non-empty reply that fails a validator       *)
(* leaves current_step and step_data as they were and sends the step's     *)
(* error_message to the contact; given a reply that passes every           *)
(* validator it stores the reply under variable_name (default user_input)  *)
(* and advances to the next step.                                          *)
(***************************************************************************)
ErrorMessageSent(t) ==
    \E k \in 1..Len(outbound) : /\ outbound[k].to = t.from
                                /\ outbound[k].content = t.step.error_message

C10_InputStepValidation ==
    \A h \in TaskIds :
        LET t == tasks[h]
            row == program_states[t.ps.id]
        IN (/\ t.kind = "call" /\ t.pc \in {"returned", "threw"}
            /\ t.step.type = "input" /\ t.text # <<>>) =>
              IF validateInput(t.text, t.step.validators)
              THEN /\ row.current_step = t.ps.current_step + 1
                   /\ VariableName(t.step) \in DOMAIN row.step_data
                   /\ row.step_data[VariableName(t.step)] = JsonString(t.text)
              ELSE /\ row.current_step = t.ps.current_step
                   /\ row.step_data = t.ps.step_data
                   /\ t.step.error_message # "" => ErrorMessageSent(t)

(***************************************************************************)
(* C11: once endChatSession has returned for a session, whatever the       *)
(* reason and whether or not its notices could be sent, the chat_sessions  *)
(* row has the reason as status and ended_at set, the session is out of    *)
(* activeSessions (so forwardUserMessage returns false for its user) and   *)
(* its idle timer is cleared.                                              *)
(***************************************************************************)
EndingSession(i) ==
    \E h \in TaskIds : /\ tasks[h].pc \in {"ecs_user", "ecs_agent"}
                       /\ tasks[h].sess.sessionId = i

C11_EndedSessionLeavesMemory ==
    \A i \in 1..Len(chat_sessions) :
        (chat_sessions[i].status # "active" /\ ~EndingSession(i)) =>
            /\ chat_sessions[i].ended_at >= 0
            /\ \A k \in 1..Len(activeSessions) : activeSessions[k].sessionId # i
            /\ chat_sessions[i].session_key \notin DOMAIN sessionTimeouts


\* the sends of the scheduler for step s of program state r
ScheduledSends(r, s) ==
    {k \in 1..Len(outbound) : /\ outbound[k].by = "sched"
                              /\ outbound[k].state = r
                              /\ outbound[k].step = s}

\* C12: across any number of scheduler ticks the message of a scheduled step
\* of a program state is sent at most once.
C12_ScheduledMessageSentOnce ==
    \A r \in 1..Len(program_states) : \A s \in 0..2 :
        Cardinality(ScheduledSends(r, s)) <= 1

\* no phone's recorded sends exceed the phone's limit of the window
PhonesWithinLimits ==
    \A r \in rate_limits : r.message_count <= PhoneLimit(config, r.time_window)

\* C13: the sends recorded system-wide in any aligned minute, hour or day
\* window never exceed the configured global limit of that window (stated
\* for the states in which every phone is within its own limits).
C13_GlobalWindowWithinLimit ==
    PhonesWithinLimits =>
        \A r \in rate_limits :
            GlobalTotal(rate_limits, r.time_window, r.window_start)
                <= GlobalLimit(config, r.time_window)

(***************************************************************************)
(* C14: at most one broadcast is processed at any time: the messages of    *)
(* one broadcast are sent without a message of another broadcast between   *)
(* them, and in the order of the recipients' ids.                          *)
(***************************************************************************)
Processing == {q \in ProcIds : processor[q].pc # "idle"}

C15_DeniedRecipientRetried ==
    [][\A q \in ProcIds :
          (processor[q].pc = "pb_wait" /\ processor'[q].pc # "pb_wait") =>
              /\ processor'[q].todo = processor[q].todo
              /\ processor'[q].pc = "pb_global"]_vars

(***************************************************************************)
(* C16: a recipient whose per-phone check is denied gets the status        *)
(* rate_limited, is sent no message in this run, and the next recipient    *)
(* follows.                                                                *)
(***************************************************************************)
C16_PhoneDeniedIsRateLimited ==
    [][\A q \in ProcIds :
          (processor[q].pc = "pb_limited" /\ processor'[q].pc # "pb_limited") =>
              /\ broadcast_recipients'[Head(processor[q].todo)].status = "rate_limited"
              /\ delivered' = delivered
              /\ processor'[q].todo = Tail(processor[q].todo)]_vars

(***************************************************************************)
(* C17: when a broadcast has the status sent, its sent_count is the number *)
(* of its recipients with status sent, its failed_count the number with    *)
(* status failed, and none of its recipients is pending.                   *)
(***************************************************************************)
RecipientsWith(broadcastId, status) ==
    {i \in 1..Len(broadcast_recipients) :
        /\ broadcast_recipients[i].broadcast_id = broadcastId
        /\ broadcast_recipients[i].status = status}

C17_CountsOfCompletedBroadcast ==
    \A b \in 1..Len(broadcasts) :
        broadcasts[b].status = "sent" =>
            /\ broadcasts[b].sent_count = Cardinality(RecipientsWith(b, "sent"))
            /\ broadcasts[b].failed_count = Cardinality(RecipientsWith(b, "failed"))
            /\ RecipientsWith(b, "pending") = {}

(***************************************************************************)
(* C18: a broadcast cancelled before its processing started (scheduled, or *)
(* waiting in the send queue, when cancelBroadcast is called, and not yet  *)
(* taken up when it returns) has no recipient sent afterwards.             *)
(***************************************************************************)
C18_CancelledBeforeStartNeverSent ==
    \A k \in 1..Len(cancels) :
        (cancels[k].pc = "returned" /\ cancels[k].notStarted) =>
            \A j \in (cancels[k].delivered + 1)..Len(delivered) :
                delivered[j].broadcast_id # cancels[k].broadcastId

(***************************************************************************)
(* C19: once an agentConnect step has been executed for a contact (the     *)
(* program state is paused, waiting for an agent), with an agent available *)
(* and no session or request of the contact before, a connection request   *)
(* of that contact is in the AgentSystem's queue of pending connections,   *)
(* for an agent's ACCEPT to find.                                          *)
(***************************************************************************)
WaitingForAgent(row) ==
    /\ row.is_paused
    /\ row.step_data = SetKey(EmptyObject, "waiting_for_agent", JSON_true)

C19_AgentConnectQueuesRequest ==
    \A i \in 1..Len(program_states) :
        (WaitingForAgent(program_states[i]) /\ AvailableAgents # {}) =>
            \/ HasPending(PhoneOf(program_states[i].contact_id))
            \/ \E k \in 1..Len(activeSessions) :
                  activeSessions[k].userPhone = PhoneOf(program_states[i].contact_id)

(***************************************************************************)
(* C20: while a program state is paused (after its agentConnect step), no  *)
(* step of that program is executed for that contact, neither when one of  *)
(* the contact's messages arrives nor at a scheduler tick.                 *)
(***************************************************************************)
InStep(t) == t.pc \in {"st_send", "st_goto", "st_delay", "st_input", "pra_select"}

C20_PausedProgramNotExecuted ==
    [][\A h \in TaskIds :
          (tasks[h].pc \in {"ep_get", "sch_select"} /\ InStep(tasks'[h])) =>
              ~program_states[tasks'[h].ps.id].is_paused]_vars
(***************************************************************************)
(* C22: once a step with no next step has been executed for a contact, the *)
(* program state stays at that step and no further message of the program  *)
(* is sent to the contact.                                                 *)
(***************************************************************************)
\* the step that sent the k-th message of the log
SendingStep(k) ==
    CurrentStep(programs[program_states[outbound[k].state].program_id].program_data,
                outbound[k].step)[1]

C22_TerminalStepStays ==
    \A k \in 1..Len(outbound) :
        SendingStep(k).next_step_id = Null =>
            /\ program_states[outbound[k].state].current_step = outbound[k].step
            /\ \A j \in (k + 1)..Len(outbound) : outbound[j].state # outbound[k].state

(***************************************************************************)
(* C23: a program state whose delay has elapsed progresses: when the       *)
(* scheduler has handled the due state, the state is at the step that the  *)
(* delay step names as its next step.                                      *)
(***************************************************************************)
C23_DelayStepProgresses ==
    [][\A h \in TaskIds :
          (tasks[h].pc = "st_delay" /\ tasks[h].kind = "sched" /\ tasks'[h].pc # "st_delay") =>
              Some(program_states'[tasks[h].ps.id].current_step) =
                  tasks[h].step.next_step_id]_vars

(***************************************************************************)
(* C24: an ACCEPT that creates a session pairs the agent with the pending  *)
(* request of the smallest requestTime; that request leaves the queue and  *)
(* every other request stays.                                              *)
(***************************************************************************)
\* the positions of a request in the queue
QueuedAt(req) ==
    {i \in 1..Len(pendingConnections) :
        /\ pendingConnections[i].userPhone = req.userPhone
        /\ pendingConnections[i].requestTime = req.requestTime}

C24_AcceptTakesOldestRequest ==
    [][\A h \in TaskIds :
          (tasks[h].pc = "acc_insert" /\ tasks'[h].pc # "acc_insert") =>
              /\ QueuedAt(tasks[h].req) # {}
              /\ \A i \in 1..Len(pendingConnections) :
                    pendingConnections[i].requestTime >= tasks[h].req.requestTime
              /\ \E i \in QueuedAt(tasks[h].req) :
                    pendingConnections' = RemoveAt(pendingConnections, i)]_vars

(***************************************************************************)
(* C25: there is at most one pending request per phone, and no pending     *)
(* request of a contact that has an active session.                        *)
(***************************************************************************)
C25_NoRequestWhileInSession ==
    /\ \A i, j \in 1..Len(pendingConnections) :
          pendingConnections[i].userPhone = pendingConnections[j].userPhone => i = j
    /\ \A i \in 1..Len(pendingConnections) :
          getActiveSessionByUser(pendingConnections[i].userPhone) = NoSess

(***************************************************************************)
(* C26: each contact has at most one active chat session.                  *)
(***************************************************************************)
C26_OneActiveSessionPerContact ==
    \A i, j \in 1..Len(chat_sessions) :
        (/\ chat_sessions[i].status = "active"
         /\ chat_sessions[j].status = "active"
         /\ chat_sessions[i].contact_id = chat_sessions[j].contact_id) => i = j

(***************************************************************************)
(* C27: when updateAgentAvailability(agentId, false) has completed, the    *)
(* agent has no active session, neither in chat_sessions nor in            *)
(* activeSessions.                                                         *)
(***************************************************************************)
C27_OfflineAgentHasNoSession ==
    [][\A h \in TaskIds :
          (tasks[h].kind = "avail" /\ ~tasks[h].available /\ tasks'[h].pc = "idle") =>
              /\ \A i \in 1..Len(chat_sessions') :
                    chat_sessions'[i].agent_id = tasks[h].agent =>
                        chat_sessions'[i].status # "active"
              /\ \A i \in 1..Len(activeSessions') :
                    activeSessions'[i].agentId # tasks[h].agent]_vars

(***************************************************************************)
(* C29: a request timeout drops a pending request only when 5 minutes have *)
(* passed since that request's own requestTime.                            *)
(***************************************************************************)
C29_RequestTimeoutAfterFiveMinutes ==
    [][(connTimers' \subseteq connTimers /\ connTimers' # connTimers) =>
          \A i \in 1..Len(pendingConnections) :
              (\A j \in 1..Len(pendingConnections') :
                  pendingConnections'[j].userPhone # pendingConnections[i].userPhone) =>
                  now >= pendingConnections[i].requestTime + ConnectionTimeoutMs]_vars

(***************************************************************************)
(* C28: the 30 minute timer ends a session only when 30 minutes have       *)
(* passed since the session began and since every message forwarded        *)
(* through it: when the timer fires, no forwarded message of the session   *)
(* is younger than 30 minutes, logged or still on its way to the log.      *)
(***************************************************************************)
C28_TimeoutOnlyAfterIdleTime ==
    [][\A k \in DOMAIN sessionTimeouts :
          /\ ~sessionTimeouts[k].fired
          /\ k \in DOMAIN sessionTimeouts'
          /\ sessionTimeouts'[k].fired
          /\ k \in ActiveKeys
          => LET sess == activeSessions[CHOOSE i \in 1..Len(activeSessions) :
                                            activeSessions[i].sessionKey = k]
             IN /\ \A h \in TaskIds :
                      tasks[h].pc \in {"fam_log", "fum_log"} =>
                          tasks[h].sess.sessionKey # k
                /\ \A m \in messages :
                      m.chat_session_id = sess.sessionId =>
                          m.created_at + SessionTimeoutMs <= now
                /\ chat_sessions[sess.sessionId].started_at + SessionTimeoutMs <= now]_vars

(***************************************************************************)
(* C30: the sweep ends (abandoned) only sessions whose last message, or    *)
(* whose start when no message was exchanged, is older than the idle       *)
(* threshold.                                                              *)
(***************************************************************************)
C30_SweepEndsOnlyIdleSessions ==
    [][\A i \in 1..Len(chat_sessions) :
          (chat_sessions[i].status = "active" /\ chat_sessions'[i].status = "abandoned") =>
              IF LastActivity(i) = Null
              THEN chat_sessions[i].started_at < now - IdleThresholdMs
              ELSE LastActivity(i)[1] < now - IdleThresholdMs]_vars

(***************************************************************************)
(* C21: when a chat session has ended (endChatSession has removed it from  *)
(* activeSessions), no program state of the session's contact is paused.   *)
(***************************************************************************)
C21_SessionEndResumesProgram ==
    [][\A i \in 1..Len(activeSessions) :
          (\A j \in 1..Len(activeSessions') :
              activeSessions'[j].sessionKey # activeSessions[i].sessionKey) =>
              \A r \in 1..Len(program_states') :
                  program_states'[r].contact_id = activeSessions[i].contactId =>
                      ~program_states'[r].is_paused]_vars

(***************************************************************************)
(* C31: checkPhoneRateLimit examines the windows minute, hour, day in this *)
(* order, starting with minute; the first window whose count is at or over *)
(* its limit ends the check with a denial that carries the window, its     *)
(* count, its limit and resetAt = windowStart + duration; the check        *)
(* answers allowed only after the day window, the last one, was found      *)
(* under its limit.                                                        *)
(***************************************************************************)
C31_WindowName(i) == CASE i = 1 -> "minute" [] i = 2 -> "hour" [] OTHER -> "day"
C31_WindowMs(i) == CASE i = 1 -> 60000 [] i = 2 -> 3600000 [] OTHER -> 86400000
C31_Limit(i) == CASE i = 1 -> config.perMinute [] i = 2 -> config.perHour
                  [] OTHER -> config.perDay

C31_PhoneCheckOrderAndResult ==
    [][\A s \in SenderIds :
          /\ (senders[s].pc # "check" /\ senders'[s].pc = "check") => senders'[s].i = 1
          /\ (senders[s].pc = "check" /\ senders'[s] # senders[s]) =>
                LET me == senders[s]
                    windowStart == (me.t \div C31_WindowMs(me.i)) * C31_WindowMs(me.i)
                    currentCount ==
                        SumCounts({r \in rate_limits :
                                      /\ r.phone = me.to
                                      /\ r.time_window = C31_WindowName(me.i)
                                      /\ r.window_start = windowStart})
                IN IF currentCount >= C31_Limit(me.i)
                   THEN /\ senders'[s].pc = "idle"
                        /\ senders'[s].res =
                               [allowed |-> FALSE, window |-> C31_WindowName(me.i),
                                current |-> currentCount, limit |-> C31_Limit(me.i),
                                resetAt |-> windowStart + C31_WindowMs(me.i)]
                   ELSE IF me.i < 3
                   THEN senders'[s].pc = "check" /\ senders'[s].i = me.i + 1
                   ELSE senders'[s].pc = "store" /\ senders'[s].res.allowed]_vars

\* a send was denied on the hour window, after the minute window had passed
C31_Witness ==
    \E s \in SenderIds :
        /\ senders[s].pc = "idle"
        /\ ~senders[s].res.allowed
        /\ senders[s].res.window = "hour"
        /\ senders[s].res.current = config.perHour

(***************************************************************************)
(* C32: when processContactPrograms has selected, for a message of a       *)
(* contact, a state that is not paused of an assigned (non-base) active    *)
(* program, the handler goes on to execute a step of such a program for    *)
(* the contact; the processing of the message does not end there.          *)
(***************************************************************************)
AssignedStatesOf(contactId) ==
    {i \in ActiveStatesOf(contactId) :
        ~programs[program_states[i].program_id].is_base_program}

C32_AssignedProgramStepExecuted ==
    [][\A h \in TaskIds :
          /\ tasks[h].pc = "pcp_select"
          /\ tasks'[h] # tasks[h]
          /\ AssignedStatesOf(ContactOf(tasks[h].from)) # {}
          => /\ InStep(tasks'[h])
             /\ \E i \in AssignedStatesOf(ContactOf(tasks[h].from)) :
                   tasks'[h].prog = program_states[i].program_id]_vars

(***************************************************************************)
(* C33: steps are addressed by their id: a message step that was sent and  *)
(* names a next step leaves the state at that step id, and the step that   *)
(* executeProgram runs for a state is the one whose id is the state's      *)
(* current step.                                                           *)
(***************************************************************************)
C33_StepsAddressedById ==
    [][\A h \in TaskIds :
          /\ (/\ tasks[h].pc = "st_goto"
              /\ tasks[h].step.type = "message"
              /\ tasks[h].step.next_step_id # Null
              /\ tasks'[h] # tasks[h])
             => Some(program_states'[tasks[h].ps.id].current_step) =
                    tasks[h].step.next_step_id
          /\ (tasks[h].pc \in {"ep_get", "ep_create"} /\ InStep(tasks'[h]))
             => tasks'[h].step.id = tasks'[h].ps.current_step]_vars

(***************************************************************************)
(* C34: executeProgram runs no step for a state whose current step does    *)
(* not exist in the program: nothing is sent for it and the state is left  *)
(* as it is.                                                               *)
(***************************************************************************)
C34_UnknownStepHaltsProgram ==
    [][\A h \in TaskIds :
          (tasks[h].pc \in {"ep_get", "ep_create"} /\ InStep(tasks'[h])) =>
              StepAt(tasks'[h].progs[tasks'[h].prog].program_data,
                     tasks'[h].ps.current_step) # <<>>]_vars

(***************************************************************************)
(* C35: a scheduled broadcast has no recipient sent while it still waits   *)
(* for its scheduled time (status scheduled); the poll promotes it exactly *)
(* once, that is, it is put in the send queue (or handed to the drain)     *)
(* only in a step that finds it scheduled; and no recipient of it is sent  *)
(* the message twice.                                                      *)
(***************************************************************************)
\* how often the broadcast waits in the send queue or is being processed
QueuedCount(queue, procs, broadcastId) ==
    Cardinality({i \in 1..Len(queue) : queue[i] = broadcastId})
      + Cardinality({q \in ProcIds : /\ procs[q].pc \notin {"idle", "pq_delay"}
                                      /\ procs[q].broadcastId = broadcastId})

C35_ScheduledBroadcastPromotedOnce ==
    [][\A b \in 1..Len(broadcasts) : broadcasts[b].scheduled =>
          /\ broadcasts[b].status = "scheduled" =>
                \A j \in 1..Len(delivered) : delivered[j].broadcast_id # b
          /\ QueuedCount(sendingQueue', processor', b)
                > QueuedCount(sendingQueue, processor, b) =>
                broadcasts[b].status = "scheduled"
          /\ \A j, k \in 1..Len(delivered') :
                (/\ delivered'[j].broadcast_id = b
                 /\ delivered'[k].broadcast_id = b
                 /\ delivered'[j].recipient = delivered'[k].recipient) => j = k]_vars

(***************************************************************************)
(* C36: when an assignProgram call ends, every resolved contact (each      *)
(* listed contact and each member of each listed group) has a program      *)
(* state of the program, also when a resolved contact had one before or is *)
(* resolved twice; and the call changes no state that exists.              *)
(***************************************************************************)
ResolvedContacts(t) ==
    {t.contactIds[i] : i \in 1..Len(t.contactIds)}
      \cup UNION {GroupMembers(t.groupIds[i]) : i \in 1..Len(t.groupIds)}

C36_AssignLeavesStateForEveryContact ==
    [][\A h \in TaskIds : tasks[h].kind = "assign" =>
          /\ SubSeq(program_states', 1, Len(program_states)) = program_states
          /\ tasks'[h].kind # "assign" =>
                \A c \in ResolvedContacts(tasks[h]) :
                    DuplicateKey(program_states', tasks[h].prog, c)]_vars

(***************************************************************************)
(* C37: the counters of a phone in the current minute, hour and day        *)
(* windows go up by exactly one for each message that is delivered to the  *)
(* phone, and by nothing else: in every step each counter grows by the     *)
(* number of messages delivered to the phone in that step (a broadcast     *)
(* send is counted once, a denied or failed send is not counted).          *)
(***************************************************************************)
DeliveredInStep(before, after, rows, phone) ==
    Cardinality({j \in (Len(before) + 1)..Len(after) : rows[after[j].recipient].phone = phone})

C37_DeliveredCountedOnce ==
    [][\A c \in SmallContacts : \A i \in 1..Len(Windows) :
          PhoneTotal(rate_limits', BcPhone(c), Windows[i], WindowStart(now', Windows[i]))
            = PhoneTotal(rate_limits, BcPhone(c), Windows[i], WindowStart(now', Windows[i]))
                + DeliveredInStep(delivered, delivered', broadcast_recipients, BcPhone(c))]_vars

(***************************************************************************)
(* C38: the send queue never gets stuck: whenever a broadcast waits in the *)
(* queue or the processing flag is set, a processBroadcastQueue call is    *)
(* running (and will take the broadcast or reset the flag), also after a   *)
(* store error in processBroadcast or in markBroadcastFailed.              *)
(***************************************************************************)
C38_QueueIsDrained ==
    (sendingQueue # <<>> \/ isProcessing) => \E q \in ProcIds : processor[q].pc # "idle"

(***************************************************************************)
(* C39: cancelled is a terminal status of a broadcast: once the status of  *)
(* a broadcast is cancelled, no step changes it.                           *)
(***************************************************************************)
C39_CancelledIsTerminal ==
    [][\A b \in 1..Len(broadcasts) :
          broadcasts[b].status = "cancelled" => broadcasts'[b].status = "cancelled"]_vars

(***************************************************************************)
(* C40: a message step advances the program state only after its send      *)
(* succeeded: the step in which the send returns or throws changes no      *)
(* program state; after a send that threw the handler does not go on to    *)
(* the UPDATE of current_step for that state, after a send that succeeded  *)
(* it does; and a handler of a message step reaches that UPDATE only from  *)
(* a send that succeeded.                                                  *)
(***************************************************************************)
C40_FailedSendKeepsState ==
    [][\A h \in TaskIds :
          /\ (tasks[h].pc = "st_send" /\ tasks'[h] # tasks[h]) =>
                /\ program_states' = program_states
                /\ (/\ tasks'[h].pc = "st_goto"
                    /\ tasks'[h].ps.id = tasks[h].ps.id
                    /\ tasks'[h].step = tasks[h].step)
                      <=> Len(outbound') > Len(outbound)
          /\ (/\ tasks'[h].pc = "st_goto"
              /\ tasks'[h].step.type = "message"
              /\ tasks'[h] # tasks[h]) =>
                /\ tasks[h].pc = "st_send"
                /\ Len(outbound') > Len(outbound)]_vars

\* a handler has left a message step whose send threw: the state is still at
\* that step and no message of the step was sent for it
C40_Witness ==
    \E h \in TaskIds :
        LET t == tasks[h]
        IN /\ t.pc \notin {"idle", "st_send", "st_goto"}
           /\ t.step.type = "message"
           /\ t.ps.id \in 1..Len(program_states)
           /\ program_states[t.ps.id].current_step = t.ps.current_step
           /\ \A j \in 1..Len(outbound) :
                 ~(outbound[j].state = t.ps.id /\ outbound[j].step = t.ps.current_step)

====
